---- MODULE Spec2Model ----
(***************************************************************************)
(* Tool connection and dispatch core of bchat: MCPServerConfig,            *)
(* MCPConnection and MCPManager (src/mcp_manager.py) and ToolRegistry      *)
(* (src/tool_registry.py, src/tools.py).                                   *)
(*                                                                         *)
(* Scheduling is asyncio's: one task runs at a time and control changes    *)
(* hands only at an await that really suspends.  `running` is the task     *)
(* that is between two suspension points (0 when every task is suspended); *)
(* only that task can take a step, so the code between two awaits is       *)
(* atomic although it is written as several small steps.                   *)
(*                                                                         *)
(* Strings that the code takes apart (server names, tool names, namespaced *)
(* names) are sequences of one-character strings.                          *)
(***************************************************************************)
EXTENDS Integers, Sequences, FiniteSets, TLC

\* ------------------------------------------------------------------ bounds
NTasks == 2
MaxOps == 3
MaxConns == 2
MaxLoads == 1
MaxCfgOps == 2

Tasks == 1 .. NTasks

\* server names of the configuration document; one contains an underscore
Names == { <<"a">>, <<"a", "_", "b">> }
\* tool names an external server may report
ToolNames == { <<"c">>, <<"b", "_", "c">> }
\* results of session.list_tools()
ToolLists == { <<>>, << <<"c">> >>, << <<"b", "_", "c">> >>,
               << <<"c">>, <<"b", "_", "c">> >> }

NoName == <<>>
EmptyMap == [x \in {} |-> 0]
Range(s) == { s[i] : i \in 1 .. Len(s) }

\* ------------------------------------------------------------- exceptions
NoExc == [cls |-> "none", msg |-> ""]
Exc(cls, msg) == [cls |-> cls, msg |-> msg]
AttributeError == Exc("AttributeError", "no attribute _process")
KeyError == Exc("KeyError", "name")
SessionCloseError == Exc("Exception", "session close failed")
TransportCloseError == Exc("Exception", "transport close failed")
\* asyncio.CancelledError, which "except Exception" does not catch
CancelledError == Exc("CancelledError", "cancelled")

\* ---------------------------------------------------------------- strings
McpPrefix == <<"m", "c", "p", "_">>

StartsWith(s, p) == Len(s) >= Len(p) /\ SubSeq(s, 1, Len(p)) = p

\* index of the first "_" of s at or after position from, 0 when none
FindUnderscore(s, from) ==
    LET hits == { i \in from .. Len(s) : s[i] = "_" }
    IN IF hits = {} THEN 0 ELSE CHOOSE i \in hits : \A j \in hits : i <= j

\* str.split("_", 2): at most two splits, at most three parts
Split2(s) ==
    LET i == FindUnderscore(s, 1)
    IN IF i = 0 THEN << s >>
       ELSE LET j == FindUnderscore(s, i + 1)
            IN IF j = 0 THEN << SubSeq(s, 1, i - 1), SubSeq(s, i + 1, Len(s)) >>
               ELSE << SubSeq(s, 1, i - 1), SubSeq(s, i + 1, j - 1),
                       SubSeq(s, j + 1, Len(s)) >>

\* str.replace(p, "", 1): drop the first occurrence of p
ReplaceFirst(s, p) ==
    LET hits == { i \in 1 .. (Len(s) - Len(p) + 1) : SubSeq(s, i, i + Len(p) - 1) = p }
    IN IF hits = {} \/ Len(p) = 0 THEN s
       ELSE LET i == CHOOSE k \in hits : \A j \in hits : k <= j
            IN SubSeq(s, 1, i - 1) \o SubSeq(s, i + Len(p), Len(s))

\* MCPConnection._namespace_tool_name
NamespaceToolName(server, tool) == McpPrefix \o server \o <<"_">> \o tool

\* MCPConnection._extract_original_tool_name
ExtractOriginalToolName(server, namespaced) ==
    ReplaceFirst(namespaced, McpPrefix \o server \o <<"_">>)

\* MCPManager._extract_server_name: the name, or the ValueError it raises
ExtractServerName(tool) ==
    IF ~StartsWith(tool, McpPrefix)
    THEN [exc |-> Exc("ValueError", "Invalid MCP tool name"), name |-> NoName]
    ELSE LET parts == Split2(tool)
         IN IF Len(parts) < 3
            THEN [exc |-> Exc("ValueError", "Invalid MCP tool name format"), name |-> NoName]
            ELSE [exc |-> NoExc, name |-> parts[2]]

\* ---------------------------------------------------------- configuration
ConfigBody(args, autoconnect, description) ==
    [command |-> "cmd", args |-> args, env |-> "e", autoconnect |-> autoconnect,
     description |-> description]
\* a base entry, the same with another description, with other args, and the
\* same without autoconnect
ConfigBodies == { ConfigBody("x", TRUE, "d1"), ConfigBody("x", TRUE, "d2"),
                  ConfigBody("y", TRUE, "d1"), ConfigBody("x", FALSE, "d1") }

MCPServerConfig(name, body) ==
    [name |-> name, command |-> body.command, args |-> body.args, env |-> body.env,
     autoconnect |-> body.autoconnect, description |-> body.description]

ConfigEq_WithDescription(c1, c2) ==
    /\ c1.command = c2.command
    /\ c1.args = c2.args
    /\ c1.env = c2.env
    /\ c1.autoconnect = c2.autoconnect
    /\ c1.description = c2.description

\* MCPServerConfig.__eq__
ConfigEq(c1, c2) ==
    /\ c1.command = c2.command
    /\ c1.args = c2.args
    /\ c1.env = c2.env
    /\ c1.autoconnect = c2.autoconnect

\* what load_config may find at config_path
BadKinds == {"missing", "not_dict", "no_servers", "servers_not_dict", "parse_error"}
\* the documents: the entry of server a varies, the entry of server a_b is the
\* base entry or absent
OkMaps ==
    { f \in UNION { [S -> ConfigBodies] : S \in SUBSET Names } :
        \A n \in DOMAIN f : n = <<"a">> \/ f[n] = ConfigBody("x", TRUE, "d1") }
ConfigFiles ==
    { [kind |-> "ok", servers |-> f] : f \in OkMaps }
    \cup { [kind |-> k, servers |-> EmptyMap] : k \in BadKinds }

\* MCPManager.load_config: the value of self.servers afterwards
LoadConfig(cur, file) ==
    IF file.kind = "ok"
    THEN [n \in DOMAIN file.servers |-> MCPServerConfig(n, file.servers[n])]
    ELSE cur

\* ------------------------------------------------------------ connections
\* MCPConnection.__init__ ; cctx/sctx: _client_context/_session_context set;
\* proc: the child process of the transport is running
MCPConnection(config) ==
    [config |-> config, session |-> FALSE, streams |-> FALSE, connected |-> FALSE,
     tools |-> EmptyMap, cctx |-> FALSE, sctx |-> FALSE, outcome |-> "pending",
     proc |-> FALSE]

\* MCPConnection.__init__ never sets the _process attribute that _cleanup reads
ProcessAttrDefined == FALSE

\* _discover_tools: the tool map built from a list_tools() result
ToolsFromList(server, L) ==
    [k \in { NamespaceToolName(server, L[i]) : i \in 1 .. Len(L) } |->
        CHOOSE tl \in Range(L) : NamespaceToolName(server, tl) = k]

NewLock == [holder |-> 0, q |-> <<>>]

LockFree_Always(L) == TRUE

\* asyncio.Lock.acquire without suspension: unlocked and nobody queued
LockFree(L) == L.holder = 0 /\ L.q = <<>>

VARIABLES servers, connections, locks, conns, task, running, nops, nloads

vars == << servers, connections, locks, conns, task, running, nops, nloads >>

NoRes == [k |-> "none", b |-> FALSE, s |-> <<>>, e |-> NoExc]

IdleTask ==
    [pc |-> "idle", op |-> "none", ret |-> "top", name |-> NoName, cid |-> 0,
     cl |-> "none", excs |-> NoExc, exc |-> NoExc, val |-> FALSE,
     todo |-> {}, iter |-> EmptyMap, old |-> EmptyMap,
     tool |-> <<>>, json |-> TRUE, via |-> "none", sent |-> <<>>,
     att |-> {}, dis |-> {}, res |-> NoRes,
     waited |-> FALSE, made |-> 0, preTools |-> {}, out |-> "none",
     route |-> "none", logged |-> FALSE, tclose |-> "none"]

\* Fields of a task beyond its position: name, cid, cl, excs, exc, val, todo,
\* iter, old are the locals of the coroutines; att/dis are the names the
\* operation has called connect_server/disconnect_server for, waited says
\* that connect_server queued for the lock, made is the Connection it
\* constructed, preTools the tool map keys disconnect() found, sent the
\* external call issued, out the outcome of the tool that ran (inside
\* connect_server: what _discover_tools did), res the result,
\* route the branch execute_tool took ("manager": Manager.call_tool was called),
\* tclose how the close of the transport context ended in the _cleanup that is
\* running ("none": not attempted).
\* For shell_command, tool is the command, out what the subprocess did ("none":
\* never started) and logged says that "Executing shell command" was logged.
\* For calculator, tool is the expression and out what the evaluation did
\* ("none": nothing was parsed).

\* pcs at which the task is suspended in an await (or not running at all);
\* "done" is the return of the operation, still in the task's own turn
Suspended == {"idle", "cs_wait", "co_transport", "co_session", "co_init",
              "co_list", "cl_session", "cl_client", "ct_call"}

Sched(t) == running = IF task[t].pc \in Suspended THEN 0 ELSE t

SetTask(t, T) ==
    /\ task' = [task EXCEPT ![t] = T]
    /\ running' = IF T.pc \in Suspended THEN 0 ELSE t

\* return of connect_server/disconnect_server to whoever called it
RetTo(T, e, b) ==
    LET C == [T EXCEPT !.cid = 0, !.cl = "none", !.excs = NoExc, !.exc = NoExc,
                       !.val = FALSE]
    IN IF T.ret = "top" \/ e # NoExc
       THEN [C EXCEPT !.pc = "done",
                      !.res = [k |-> IF e = NoExc THEN "ret" ELSE "exc",
                               b |-> b, s |-> <<>>, e |-> e]]
       ELSE CASE T.ret = "auto" -> [C EXCEPT !.pc = "au_loop"]
              [] T.ret = "reload1" -> [C EXCEPT !.pc = "rl_loop1"]
              [] T.ret = "reload2d" -> [C EXCEPT !.pc = "cs_enter", !.ret = "reload2c",
                                                 !.att = @ \cup {T.name}]
              [] T.ret = "reload2c" -> [C EXCEPT !.pc = "rl_loop2"]
              [] OTHER -> [C EXCEPT !.pc = "cu_loop"]

\* where _cleanup first suspends for connection c ("cl_end": nothing to close)
CleanupEntry(c) ==
    IF c.sctx THEN "cl_session" ELSE IF c.cctx THEN "cl_client" ELSE "cl_end"

\* a Manager before any connection is made
Fresh ==
    /\ connections = EmptyMap
    /\ locks = EmptyMap
    /\ conns = <<>>
    /\ task = [t \in Tasks |-> IdleTask]
    /\ running = 0
    /\ nops = 0
    /\ nloads = 0

\* main.py lines 41-42: the Manager is constructed and load_config() has run;
\* here every configured server has the base entry
Init ==
    /\ Fresh
    /\ servers \in { LoadConfig(EmptyMap, [kind |-> "ok",
                                           servers |-> [n \in S |-> ConfigBody("x", TRUE, "d1")]]) :
                     S \in SUBSET Names }

\* the same with any configuration document, a missing or malformed one included
InitCfg ==
    /\ Fresh
    /\ servers \in { LoadConfig(EmptyMap, f) : f \in ConfigFiles }

\* ------------------------------------------------- MCPManager.connect_server
StartConnectServer(t, n) ==
    /\ task[t].pc = "idle" /\ Sched(t) /\ nops < MaxOps
    /\ nops' = nops + 1
    /\ SetTask(t, [IdleTask EXCEPT !.pc = "cs_enter", !.op = "connect_server",
                                   !.name = n, !.att = {n}])
    /\ UNCHANGED << servers, connections, locks, conns, nloads >>

\* lines 353-362: config check, lazy lock, acquire or queue
CS_Enter(t) ==
    LET T == task[t]
        n == T.name
        L == IF n \in DOMAIN locks THEN locks[n] ELSE NewLock
    IN /\ T.pc = "cs_enter" /\ Sched(t)
       /\ IF n \notin DOMAIN servers
          THEN /\ SetTask(t, RetTo(T, NoExc, FALSE))
               /\ UNCHANGED locks
          ELSE IF LockFree(L)
          THEN /\ locks' = (n :> [L EXCEPT !.holder = t]) @@ locks
               /\ SetTask(t, [T EXCEPT !.pc = "cs_locked"])
          ELSE /\ locks' = (n :> [L EXCEPT !.q = Append(@, t)]) @@ locks
               /\ SetTask(t, [T EXCEPT !.pc = "cs_wait", !.waited = TRUE])
       /\ UNCHANGED << servers, connections, conns, nops, nloads >>

\* the lock is handed to the longest waiting task
CS_Wake(t) ==
    LET T == task[t]
    IN /\ T.pc = "cs_wait" /\ Sched(t)
       /\ locks[T.name].holder = 0
       /\ Head(locks[T.name].q) = t
       /\ locks' = [locks EXCEPT ![T.name] = [holder |-> t, q |-> Tail(@.q)]]
       /\ SetTask(t, [T EXCEPT !.pc = "cs_locked"])
       /\ UNCHANGED << servers, connections, conns, nops, nloads >>

AlreadyConnected_Never(n) == FALSE

\* connect_server line 363: a connected Connection is registered under n
AlreadyConnected(n) == n \in DOMAIN connections /\ conns[connections[n]].connected

\* lines 363-370 and connect() lines 89-106, up to the await of the transport
CS_Locked(t) ==
    LET T == task[t]
        n == T.name
    IN /\ T.pc = "cs_locked" /\ Sched(t)
       /\ IF AlreadyConnected(n)
          THEN /\ locks' = [locks EXCEPT ![n].holder = 0]
               /\ SetTask(t, RetTo(T, NoExc, TRUE))
               /\ UNCHANGED conns
          ELSE IF n \notin DOMAIN servers
          THEN /\ locks' = [locks EXCEPT ![n].holder = 0]
               /\ SetTask(t, RetTo(T, KeyError, FALSE))
               /\ UNCHANGED conns
          ELSE /\ Len(conns) < MaxConns
               /\ conns' = Append(conns, [MCPConnection(servers[n]) EXCEPT !.cctx = TRUE])
               /\ SetTask(t, [T EXCEPT !.pc = "co_transport", !.cid = Len(conns) + 1,
                                       !.made = Len(conns) + 1, !.out = "none"])
               /\ UNCHANGED locks
       /\ UNCHANGED << servers, connections, nops, nloads >>

\* connect() lines 102-113: the transport answers, times out or fails
CO_Transport(t) ==
    LET T == task[t]
    IN /\ T.pc = "co_transport" /\ Sched(t)
       /\ \E o \in {"ok", "timeout", "error"} :
            CASE o = "ok" ->
                   /\ conns' = [conns EXCEPT ![T.cid].streams = TRUE, ![T.cid].sctx = TRUE,
                                             ![T.cid].proc = TRUE]
                   /\ SetTask(t, [T EXCEPT !.pc = "co_session"])
              [] o = "timeout" ->
                   /\ conns' = [conns EXCEPT ![T.cid].outcome = "fail"]
                   /\ SetTask(t, [T EXCEPT !.pc = "cs_finish", !.val = FALSE])
              [] OTHER ->
                   /\ UNCHANGED conns
                   /\ SetTask(t, [T EXCEPT !.pc = CleanupEntry(conns[T.cid]), !.cl = "exc"])
       /\ UNCHANGED << servers, connections, locks, nops, nloads >>

\* connect() line 113: ClientSession.__aenter__
CO_Session(t) ==
    LET T == task[t]
    IN /\ T.pc = "co_session" /\ Sched(t)
       /\ \E o \in {"ok", "error"} :
            IF o = "ok"
            THEN /\ conns' = [conns EXCEPT ![T.cid].session = TRUE]
                 /\ SetTask(t, [T EXCEPT !.pc = "co_init"])
            ELSE /\ UNCHANGED conns
                 /\ SetTask(t, [T EXCEPT !.pc = CleanupEntry(conns[T.cid]), !.cl = "exc"])
       /\ UNCHANGED << servers, connections, locks, nops, nloads >>

\* connect() lines 116-121: session.initialize() under its timeout
CO_Init(t) ==
    LET T == task[t]
    IN /\ T.pc = "co_init" /\ Sched(t)
       /\ \E o \in {"ok", "timeout", "error"} :
            SetTask(t, [T EXCEPT !.pc = IF o = "ok" THEN "co_list"
                                        ELSE CleanupEntry(conns[T.cid]),
                                 !.cl = IF o = "ok" THEN "none"
                                        ELSE IF o = "timeout" THEN "t120" ELSE "exc"])
       /\ UNCHANGED << servers, connections, locks, conns, nops, nloads >>

\* _discover_tools lines 205-212: the tool map when the loop over the listed
\* descriptors raised after "stored" of them were entered; the except clause
\* logs and leaves the map as it is
DiscoveryKeeps(server, L, stored) == ToolsFromList(server, SubSeq(L, 1, stored))

\* _discover_tools and connect() lines 126-128: list_tools answers and the
\* descriptors are stored, or list_tools raises, or the loop over the
\* descriptors raises part-way (at a descriptor's name before it is stored,
\* or at the log line after it was stored)
CO_List(t) ==
    LET T == task[t]
        c == conns[T.cid]
    IN /\ T.pc = "co_list" /\ Sched(t)
       /\ \/ \E L \in ToolLists :
               /\ conns' = [conns EXCEPT ![T.cid] =
                              [c EXCEPT !.tools = ToolsFromList(c.config.name, L),
                                        !.connected = TRUE, !.outcome = "ok"]]
               /\ SetTask(t, [T EXCEPT !.pc = "cs_finish", !.val = TRUE, !.out = "listed"])
          \/ /\ conns' = [conns EXCEPT ![T.cid] =
                              [c EXCEPT !.connected = TRUE, !.outcome = "ok"]]
             /\ SetTask(t, [T EXCEPT !.pc = "cs_finish", !.val = TRUE,
                                     !.out = "list_failed"])
          \/ \E L \in ToolLists \ {<<>>} : \E stored \in 0 .. Len(L) :
               /\ conns' = [conns EXCEPT ![T.cid] =
                              [c EXCEPT !.tools = DiscoveryKeeps(c.config.name, L, stored),
                                        !.connected = TRUE, !.outcome = "ok"]]
               /\ SetTask(t, [T EXCEPT !.pc = "cs_finish", !.val = TRUE,
                                       !.out = "loop_failed"])
       /\ UNCHANGED << servers, connections, locks, nops, nloads >>

\* ------------------------------------------------- MCPConnection._cleanup
\* where _cleanup goes after the close of the session context: an Exception
\* is collected and the client context is next; a cancellation of the task is
\* no Exception and leaves _cleanup through the finally block
AfterSessionClose(o, c) ==
    IF o = "cancelled" THEN "cl_end" ELSE IF c.cctx THEN "cl_client" ELSE "cl_end"

\* lines 163-171: close of the session context
CL_Session(t) ==
    LET T == task[t]
        c == conns[T.cid]
    IN /\ T.pc = "cl_session" /\ Sched(t)
       /\ \E o \in {"ok", "error", "cancelled"} :
            /\ conns' = [conns EXCEPT ![T.cid] = [c EXCEPT !.sctx = FALSE, !.session = FALSE]]
            /\ SetTask(t, [T EXCEPT !.pc = AfterSessionClose(o, c),
                                    !.excs = IF o = "error" THEN SessionCloseError ELSE @,
                                    !.exc = IF o = "cancelled" THEN CancelledError ELSE @])
       /\ UNCHANGED << servers, connections, locks, nops, nloads >>

\* lines 174-190: close of the client context and its finally block, which
\* reads self._process before it releases the handles; a completed close of
\* the context ends the child process, terminate() would end it otherwise
CL_Client(t) ==
    LET T == task[t]
        c == conns[T.cid]
    IN /\ T.pc = "cl_client" /\ Sched(t)
       /\ \E o \in {"ok", "cancelled", "timeout", "error"} :
            IF ~ProcessAttrDefined
            THEN /\ conns' = [conns EXCEPT ![T.cid].proc = IF o = "ok" THEN FALSE ELSE @]
                 /\ SetTask(t, [T EXCEPT !.pc = "cl_end", !.exc = AttributeError,
                                         !.tclose = o])
            ELSE /\ conns' = [conns EXCEPT ![T.cid] = [c EXCEPT !.cctx = FALSE, !.streams = FALSE,
                                                               !.proc = FALSE]]
                 /\ SetTask(t, [T EXCEPT !.pc = "cl_end", !.tclose = o,
                                         !.exc = IF o = "error" THEN TransportCloseError
                                                 ELSE NoExc])
       /\ UNCHANGED << servers, connections, locks, nops, nloads >>

\* lines 193-194 and the code that called _cleanup: connect() line 120
\* ("t120"), connect() line 132 ("exc"), disconnect() line 148 ("disc"); an
\* Exception raised at line 120 is caught at line 130, a CancelledError passes
\* the except clauses of connect() and disconnect()
CL_End(t) ==
    LET T == task[t]
        c == conns[T.cid]
        E == IF T.exc # NoExc THEN T.exc ELSE T.excs
        T0 == [T EXCEPT !.exc = NoExc, !.excs = NoExc, !.cl = "none", !.tclose = "none"]
    IN /\ T.pc = "cl_end" /\ Sched(t)
       /\ CASE T.cl = "disc" /\ E = CancelledError ->
                 /\ UNCHANGED conns
                 /\ SetTask(t, RetTo(T0, E, FALSE))
            [] T.cl = "t120" /\ E = CancelledError ->
                 /\ conns' = [conns EXCEPT ![T.cid].outcome = "raise"]
                 /\ SetTask(t, [T0 EXCEPT !.pc = "cs_finish", !.val = FALSE, !.exc = E])
            [] T.cl = "t120" /\ E \notin {NoExc, CancelledError} ->
                 /\ UNCHANGED conns
                 /\ SetTask(t, [T0 EXCEPT !.pc = CleanupEntry(c), !.cl = "exc"])
            [] T.cl = "t120" /\ E = NoExc ->
                 /\ conns' = [conns EXCEPT ![T.cid].outcome = "fail"]
                 /\ SetTask(t, [T0 EXCEPT !.pc = "cs_finish", !.val = FALSE])
            [] T.cl = "exc" ->
                 /\ conns' = [conns EXCEPT ![T.cid].outcome =
                                 IF E = NoExc THEN "fail" ELSE "raise"]
                 /\ SetTask(t, [T0 EXCEPT !.pc = "cs_finish", !.val = FALSE, !.exc = E])
            [] OTHER ->
                 /\ conns' = IF E = NoExc
                             THEN [conns EXCEPT ![T.cid] =
                                     [c EXCEPT !.connected = FALSE, !.tools = EmptyMap]]
                             ELSE conns
                 /\ SetTask(t, [T0 EXCEPT !.pc = "ds_finish", !.val = (E = NoExc)])
       /\ UNCHANGED << servers, connections, locks, nops, nloads >>

Registers_Always(exc, success) == TRUE

\* connect_server lines 369-371: connect() returned, "if success:"
Registers(exc, success) == exc = NoExc /\ success

\* connect_server lines 370-374: register on success, leave the lock
CS_Finish(t) ==
    LET T == task[t]
        n == T.name
    IN /\ T.pc = "cs_finish" /\ Sched(t)
       /\ connections' = IF Registers(T.exc, T.val)
                         THEN (n :> T.cid) @@ connections
                         ELSE connections
       /\ locks' = [locks EXCEPT ![n].holder = 0]
       /\ SetTask(t, RetTo([T EXCEPT !.out = "none"], T.exc, T.val))
       /\ UNCHANGED << servers, conns, nops, nloads >>

\* ---------------------------------------------- MCPManager.disconnect_server
StartDisconnectServer(t, n) ==
    /\ task[t].pc = "idle" /\ Sched(t) /\ nops < MaxOps
    /\ nops' = nops + 1
    /\ SetTask(t, [IdleTask EXCEPT !.pc = "ds_enter", !.op = "disconnect_server",
                                   !.name = n, !.dis = {n}])
    /\ UNCHANGED << servers, connections, locks, conns, nloads >>

\* lines 386-390 and disconnect() lines 142-148
DS_Enter(t) ==
    LET T == task[t]
        n == T.name
    IN /\ T.pc = "ds_enter" /\ Sched(t)
       /\ IF n \notin DOMAIN connections
          THEN SetTask(t, RetTo(T, NoExc, TRUE))
          ELSE IF ~conns[connections[n]].connected
          THEN SetTask(t, [T EXCEPT !.pc = "ds_finish", !.cid = connections[n], !.val = TRUE])
          ELSE SetTask(t, [T EXCEPT !.pc = CleanupEntry(conns[connections[n]]),
                                    !.cid = connections[n], !.cl = "disc",
                                    !.preTools = DOMAIN conns[connections[n]].tools])
       /\ UNCHANGED << servers, connections, locks, conns, nops, nloads >>

RemoveRegistration_Always(success) == TRUE

\* line 391: "if success" in front of the del
RemoveRegistration(success) == success

\* lines 391-394
DS_Finish(t) ==
    LET T == task[t]
        n == T.name
    IN /\ T.pc = "ds_finish" /\ Sched(t)
       /\ IF RemoveRegistration(T.val) /\ n \in DOMAIN connections
          THEN /\ connections' = [m \in DOMAIN connections \ {n} |-> connections[m]]
               /\ SetTask(t, RetTo(T, NoExc, T.val))
          ELSE /\ UNCHANGED connections
               /\ SetTask(t, RetTo(T, IF RemoveRegistration(T.val) THEN KeyError ELSE NoExc,
                                   T.val))
       /\ UNCHANGED << servers, locks, conns, nops, nloads >>

\* ------------------------------------------------- MCPManager.load_config
DoLoadConfig(t) ==
    /\ task[t].pc = "idle" /\ Sched(t) /\ nops < MaxOps
    /\ nops' = nops + 1
    /\ nloads < MaxLoads /\ nloads' = nloads + 1
    /\ \E file \in ConfigFiles : servers' = LoadConfig(servers, file)
    /\ SetTask(t, [IdleTask EXCEPT !.pc = "done", !.op = "load_config",
                                   !.res = [NoRes EXCEPT !.k = "ret"]])
    /\ UNCHANGED << connections, locks, conns >>

\* --------------------------------- MCPManager.connect_autoconnect_servers
\* lines 336-339: load when nothing is configured, then iterate self.servers
StartAutoconnect(t) ==
    /\ task[t].pc = "idle" /\ Sched(t) /\ nops < MaxOps
    /\ nops' = nops + 1
    /\ (DOMAIN servers = {} => nloads < MaxLoads)
    /\ nloads' = IF DOMAIN servers = {} THEN nloads + 1 ELSE nloads
    /\ \E file \in ConfigFiles :
         /\ servers' = IF DOMAIN servers = {} THEN LoadConfig(servers, file) ELSE servers
         /\ SetTask(t, [IdleTask EXCEPT !.pc = "au_loop", !.op = "autoconnect",
                                        !.iter = servers', !.todo = DOMAIN servers'])
    /\ UNCHANGED << connections, locks, conns >>

AutoFilter_All(config) == TRUE

\* line 340: the autoconnect test
AutoFilter(config) == config.autoconnect

\* lines 339-341: one iteration of the loop (the dict being iterated is the one
\* self.servers named when the loop began; load_config never mutates it)
AU_Loop(t) ==
    LET T == task[t]
    IN /\ T.pc = "au_loop" /\ Sched(t)
       /\ IF T.todo = {}
          THEN SetTask(t, [T EXCEPT !.pc = "done", !.res = [NoRes EXCEPT !.k = "ret"]])
          ELSE \E n \in T.todo :
                 IF AutoFilter(T.iter[n])
                 THEN SetTask(t, [T EXCEPT !.pc = "cs_enter", !.ret = "auto", !.name = n,
                                           !.todo = @ \ {n}, !.att = @ \cup {n}])
                 ELSE SetTask(t, [T EXCEPT !.todo = @ \ {n}])
       /\ UNCHANGED << servers, connections, locks, conns, nops, nloads >>

\* --------------------------------------------- MCPManager.reload_config
\* lines 403-409: snapshot, load, list(self.connections.keys()); iter is the
\* loaded map until the second loop takes the map self.servers then names
StartReload(t) ==
    /\ task[t].pc = "idle" /\ Sched(t) /\ nops < MaxOps
    /\ nops' = nops + 1
    /\ nloads < MaxLoads /\ nloads' = nloads + 1
    /\ \E file \in ConfigFiles : servers' = LoadConfig(servers, file)
    /\ SetTask(t, [IdleTask EXCEPT !.pc = "rl_loop1", !.op = "reload_config",
                                   !.old = servers, !.iter = servers',
                                   !.todo = DOMAIN connections])
    /\ UNCHANGED << connections, locks, conns >>

\* lines 409-415: disconnect what left the config, then start the second loop
RL_Loop1(t) ==
    LET T == task[t]
    IN /\ T.pc = "rl_loop1" /\ Sched(t)
       /\ IF T.todo = {}
          THEN SetTask(t, [T EXCEPT !.pc = "rl_loop2", !.iter = servers,
                                    !.todo = DOMAIN servers])
          ELSE \E n \in T.todo :
                 IF n \notin DOMAIN servers
                 THEN SetTask(t, [T EXCEPT !.pc = "ds_enter", !.ret = "reload1", !.name = n,
                                           !.todo = @ \ {n}, !.dis = @ \cup {n}])
                 ELSE SetTask(t, [T EXCEPT !.todo = @ \ {n}])
       /\ UNCHANGED << servers, connections, locks, conns, nops, nloads >>

\* lines 415-421: reconnect new and changed autoconnect servers
RL_Loop2(t) ==
    LET T == task[t]
    IN /\ T.pc = "rl_loop2" /\ Sched(t)
       /\ IF T.todo = {}
          THEN SetTask(t, [T EXCEPT !.pc = "done", !.res = [NoRes EXCEPT !.k = "ret"]])
          ELSE \E n \in T.todo :
                 IF /\ T.iter[n].autoconnect
                    /\ (n \notin DOMAIN T.old \/ ~ConfigEq(T.old[n], T.iter[n]))
                 THEN IF n \in DOMAIN connections
                      THEN SetTask(t, [T EXCEPT !.pc = "ds_enter", !.ret = "reload2d",
                                                !.name = n, !.todo = @ \ {n},
                                                !.dis = @ \cup {n}])
                      ELSE SetTask(t, [T EXCEPT !.pc = "cs_enter", !.ret = "reload2c",
                                                !.name = n, !.todo = @ \ {n},
                                                !.att = @ \cup {n}])
                 ELSE SetTask(t, [T EXCEPT !.todo = @ \ {n}])
       /\ UNCHANGED << servers, connections, locks, conns, nops, nloads >>

\* --------------------------------------------------- MCPManager.cleanup
StartCleanup(t) ==
    /\ task[t].pc = "idle" /\ Sched(t) /\ nops < MaxOps
    /\ nops' = nops + 1
    /\ SetTask(t, [IdleTask EXCEPT !.pc = "cu_loop", !.op = "cleanup",
                                   !.todo = DOMAIN connections])
    /\ UNCHANGED << servers, connections, locks, conns, nloads >>

CU_Loop(t) ==
    LET T == task[t]
    IN /\ T.pc = "cu_loop" /\ Sched(t)
       /\ IF T.todo = {}
          THEN SetTask(t, [T EXCEPT !.pc = "done", !.res = [NoRes EXCEPT !.k = "ret"]])
          ELSE \E n \in T.todo :
                 SetTask(t, [T EXCEPT !.pc = "ds_enter", !.ret = "cleanup", !.name = n,
                                      !.todo = @ \ {n}, !.dis = @ \cup {n}])
       /\ UNCHANGED << servers, connections, locks, conns, nops, nloads >>

\* ------------------------------------- readers of the Manager (no await)
GetAllTools_IgnoreFilter(filter) ==
    LET live == { n \in DOMAIN connections : conns[connections[n]].connected }
        keys == UNION { DOMAIN conns[connections[n]].tools : n \in live }
    IN [k \in keys |-> { n \in live : k \in DOMAIN conns[connections[n]].tools }]

\* MCPManager.get_all_tools: the keys of the result, each with the connected
\* servers whose tool map holds it; the "server" of the entry is the one of
\* them that self.connections visits last (dict assignment replaces)
GetAllTools(filter) ==
    LET live == { n \in DOMAIN connections :
                    /\ conns[connections[n]].connected
                    /\ (filter = NoName \/ n = filter) }
        keys == UNION { DOMAIN conns[connections[n]].tools : n \in live }
    IN [k \in keys |-> { n \in live : k \in DOMAIN conns[connections[n]].tools }]

\* MCPManager.get_status: connected flag and tool_count of a configured server
StatusConnected(n) == n \in DOMAIN connections /\ conns[connections[n]].connected
StatusToolCount(n) ==
    IF StatusConnected(n) THEN Cardinality(DOMAIN conns[connections[n]].tools) ELSE 0

\* MCPManager.get_tool_schemas: one schema per tool map entry of every
\* registered Connection that is connected, as (server, namespaced name)
GetToolSchemas ==
    { p \in Names \X UNION { DOMAIN conns[i].tools : i \in 1 .. Len(conns) } :
        /\ p[1] \in DOMAIN connections
        /\ conns[connections[p[1]]].connected
        /\ p[2] \in DOMAIN conns[connections[p[1]]].tools }

\* --------------------------------------------------- tool dispatch
LocalTools == { <<"calculator">>, <<"get_datetime">>, <<"shell_command">> }

\* ToolRegistry.list_tools with a Manager set: the names of the list (local
\* names and dict keys, none twice); an absent or empty filter is NoName
ListTools(filter) ==
    (IF filter = NoName THEN LocalTools ELSE {}) \cup DOMAIN GetAllTools(filter)

\* ToolRegistry.get_tool_schemas with a Manager set: the length of the list
RegistryToolSchemaCount == Cardinality(LocalTools) + Cardinality(GetToolSchemas)

ErrStr(msg) == << "Error: ", msg >>
TextStr == << "text" >>

\* what a local tool function may do: return, or raise from its validation,
\* its timeout, its execution or its argument binding
LocalOutcomes == {"ok", "ValueError", "TimeoutError", "RuntimeError", "TypeError"}

\* tool names handed to call_tool / execute_tool
CallNames ==
    { NamespaceToolName(s, tl) : s \in Names, tl \in ToolNames }
    \cup { <<"m", "c", "p", "_", "a">>, <<"c">>, <<"calculator">> }

\* MCPManager.call_tool and MCPConnection.call_tool up to the await of the
\* external call: the exception raised, or the connection and the original name
CallToolPrefix(tool) ==
    LET srv == ExtractServerName(tool)
    IN IF srv.exc # NoExc THEN [exc |-> srv.exc, cid |-> 0, orig |-> <<>>]
       ELSE IF srv.name \notin DOMAIN connections
       THEN [exc |-> Exc("RuntimeError", "not connected"), cid |-> 0, orig |-> <<>>]
       ELSE LET id == connections[srv.name]
                c == conns[id]
                orig == ExtractOriginalToolName(c.config.name, tool)
            IN IF ~c.connected \/ ~c.session
               THEN [exc |-> Exc("RuntimeError", "not connected"), cid |-> 0, orig |-> <<>>]
               ELSE IF orig \notin { c.tools[k] : k \in DOMAIN c.tools }
               THEN [exc |-> Exc("ValueError", "tool not found"), cid |-> 0, orig |-> <<>>]
               ELSE [exc |-> NoExc, cid |-> id, orig |-> orig]

RetStr(s) == [k |-> "ret", b |-> FALSE, s |-> s, e |-> NoExc]
RaiseExc(e) == [k |-> "exc", b |-> FALSE, s |-> <<>>, e |-> e]

RegistryExcept_Reraise(e) == RaiseExc(e)

\* the except clause of ToolRegistry.execute_tool (lines 100-102)
RegistryExcept(e) == RetStr(ErrStr(e.msg))
\* the except clause of Tool.execute (lines 64-66)
ToolExcept(e) == RetStr(ErrStr(e.msg))

\* MCPManager.call_tool called directly: exceptions reach the caller
StartCallTool(t, tool) ==
    LET p == CallToolPrefix(tool)
        T == [IdleTask EXCEPT !.op = "call_tool", !.via = "manager", !.tool = tool,
                              !.route = "manager"]
    IN /\ task[t].pc = "idle" /\ Sched(t) /\ nops < MaxOps
       /\ nops' = nops + 1
       /\ IF p.exc # NoExc
          THEN SetTask(t, [T EXCEPT !.pc = "done", !.res = RaiseExc(p.exc)])
          ELSE SetTask(t, [T EXCEPT !.pc = "ct_call", !.cid = p.cid,
                                    !.sent = << p.cid, p.orig >>])
       /\ UNCHANGED << servers, connections, locks, conns, nloads >>

Route_NoLocal(tool, mgr) ==
    IF StartsWith(tool, McpPrefix) /\ mgr THEN "manager" ELSE "unknown"

\* ToolRegistry.execute_tool lines 92, 96, 104: the branch taken
Route(tool, mgr) ==
    IF tool \in LocalTools THEN "local"
    ELSE IF StartsWith(tool, McpPrefix) /\ mgr THEN "manager"
    ELSE "unknown"

\* ToolRegistry.execute_tool; mgr: the registry holds a Manager
StartExecuteTool(t, tool, json, mgr) ==
    LET p == CallToolPrefix(tool)
        T == [IdleTask EXCEPT !.op = "execute_tool",
                              !.via = IF mgr THEN "registry" ELSE "registry_nomgr",
                              !.tool = tool, !.json = json]
    IN /\ task[t].pc = "idle" /\ Sched(t) /\ nops < MaxOps
       /\ nops' = nops + 1
       /\ IF Route(tool, mgr) = "local"
          THEN \E o \in LocalOutcomes :
                 SetTask(t, [T EXCEPT !.pc = "done", !.route = "local",
                      !.out = IF ~json THEN "none" ELSE o,
                      !.res = IF ~json THEN ToolExcept(Exc("JSONDecodeError", "bad json"))
                              ELSE IF o = "ok" THEN RetStr(TextStr)
                              ELSE ToolExcept(Exc(o, "tool failed"))])
          ELSE IF Route(tool, mgr) = "manager"
          THEN IF ~json
               THEN SetTask(t, [T EXCEPT !.pc = "done", !.route = "parse",
                      !.res = RegistryExcept(Exc("JSONDecodeError", "bad json"))])
               ELSE IF p.exc # NoExc
               THEN SetTask(t, [T EXCEPT !.pc = "done", !.route = "manager",
                                         !.res = RegistryExcept(p.exc)])
               ELSE SetTask(t, [T EXCEPT !.pc = "ct_call", !.cid = p.cid,
                                         !.route = "manager",
                                         !.sent = << p.cid, p.orig >>])
          ELSE SetTask(t, [T EXCEPT !.pc = "done", !.route = "unknown",
                                    !.res = RetStr(ErrStr("Unknown tool"))])
       /\ UNCHANGED << servers, connections, locks, conns, nloads >>

CT_Call_Raises(t) ==
    LET T == task[t]
    IN /\ T.pc = "ct_call" /\ Sched(t)
       /\ \E o \in {"ok", "error"} :
            SetTask(t, [T EXCEPT !.pc = "done", !.cid = 0, !.out = o,
                                 !.res = IF o = "ok" THEN RetStr(TextStr)
                                         ELSE RaiseExc(Exc("Exception", "call failed"))])
       /\ UNCHANGED << servers, connections, locks, conns, nops, nloads >>

\* MCPConnection.call_tool lines 270-286: the external call answers or fails
CT_Call(t) ==
    LET T == task[t]
    IN /\ T.pc = "ct_call" /\ Sched(t)
       /\ \E o \in {"ok", "error"} :
            SetTask(t, [T EXCEPT !.pc = "done", !.cid = 0, !.out = o,
                                 !.res = IF o = "ok" THEN RetStr(TextStr)
                                         ELSE RetStr(ErrStr("call failed"))])
       /\ UNCHANGED << servers, connections, locks, conns, nops, nloads >>

\* the coroutine object of a finished operation is dropped
Finish(t) ==
    /\ task[t].pc = "done" /\ Sched(t)
    /\ SetTask(t, IdleTask)
    /\ UNCHANGED << servers, connections, locks, conns, nops, nloads >>

\* the steps inside connect_server, disconnect_server and the return
ConnSteps(t) ==
    \/ CS_Enter(t)
    \/ CS_Wake(t)
    \/ CS_Locked(t)
    \/ CO_Transport(t)
    \/ CO_Session(t)
    \/ CO_Init(t)
    \/ CO_List(t)
    \/ CL_Session(t)
    \/ CL_Client(t)
    \/ CL_End(t)
    \/ CS_Finish(t)
    \/ DS_Enter(t)
    \/ DS_Finish(t)
    \/ Finish(t)

\* connections and dispatch under a fixed configuration
Next ==
    \E t \in Tasks :
        \/ ConnSteps(t)
        \/ \E n \in Names : StartConnectServer(t, n)
        \/ \E n \in Names : StartDisconnectServer(t, n)
        \/ StartCleanup(t)
        \/ CU_Loop(t)
        \/ \E tool \in CallNames : StartCallTool(t, tool)
        \/ \E tool \in CallNames, json \in BOOLEAN, mgr \in BOOLEAN :
              StartExecuteTool(t, tool, json, mgr)
        \/ CT_Call(t)

Spec == Init /\ [][Next]_vars

\* connections under a configuration that is loaded, reloaded and autoconnected
NextCfg ==
    \E t \in Tasks :
        \/ ConnSteps(t)
        \/ \E n \in Names : nops < MaxCfgOps /\ StartConnectServer(t, n)
        \/ \E n \in Names : nops < MaxCfgOps /\ StartDisconnectServer(t, n)
        \/ nops < MaxCfgOps /\ DoLoadConfig(t)
        \/ nops < MaxCfgOps /\ StartAutoconnect(t)
        \/ AU_Loop(t)
        \/ nops < MaxCfgOps /\ StartReload(t)
        \/ RL_Loop1(t)
        \/ RL_Loop2(t)

SpecCfg == InitCfg /\ [][NextCfg]_vars

\* ---- calls of connect_server and reload_config only
NextRace ==
    \E t \in Tasks :
        \/ ConnSteps(t)
        \/ \E n \in Names : nops < MaxCfgOps /\ StartConnectServer(t, n)
        \/ nops < MaxCfgOps /\ StartReload(t)
        \/ RL_Loop1(t)
        \/ RL_Loop2(t)

SpecRace == InitCfg /\ [][NextRace]_vars

\* ---- connect_server and disconnect_server against a server that may stop
\* answering
\* calls of connect_server that have not constructed their Connection yet
ConnectsToCome ==
    { u \in Tasks : task[u].op = "connect_server" /\ task[u].made = 0
                    /\ task[u].pc # "done" }

NextLive ==
    \E t \in Tasks :
        \/ ConnSteps(t)
        \/ \E n \in Names :
             /\ Len(conns) + Cardinality(ConnectsToCome) < MaxConns
             /\ StartConnectServer(t, n)
        \/ \E n \in Names : StartDisconnectServer(t, n)

\* the steps of task t that the event loop is bound to run: those that wait
\* for nothing outside the program (lock hand-over, returns) and the awaits
\* under asyncio.wait_for, which end by their timeout at the latest (lines
\* 103-106, 117, 176). The awaits of ClientSession.__aenter__ (line 113) and
\* of the session close (line 165) have no timeout and are not among them;
\* list_tools (line 202) is taken to answer.
BoundedSteps(t) ==
    \/ CS_Enter(t) \/ CS_Wake(t) \/ CS_Locked(t)
    \/ CO_Transport(t) \/ CO_Init(t) \/ CO_List(t)
    \/ CL_Client(t) \/ CL_End(t)
    \/ CS_Finish(t) \/ DS_Enter(t) \/ DS_Finish(t) \/ Finish(t)

SpecLive == Init /\ [][NextLive]_vars /\ \A t \in Tasks : WF_vars(BoundedSteps(t))

\* ======================================================================
\* Local tools (src/tools.py): shell_command and calculator called directly
\* ======================================================================
\* tools.py line 197: the longest command accepted
MaxCmdLen == 1000

\* the backquote character (it cannot be written inside a string here)
BackQuote == "backquote"

\* str.isspace for the characters used here
IsSpace(c) == c \in {" ", "\t", "\n"}

\* s has p at position i
HasAt(s, i, p) == i >= 1 /\ i + Len(p) - 1 <= Len(s) /\ SubSeq(s, i, i + Len(p) - 1) = p

\* the first position at or after i that holds no whitespace (Len(s)+1: none)
SkipSpace(s, i) ==
    LET stops == { j \in i .. Len(s) + 1 : j = Len(s) + 1 \/ ~IsSpace(s[j]) }
    IN CHOOSE j \in stops : \A k \in stops : j <= k

\* first deny-list pattern: a semicolon, ampersand, bar, backquote or dollar
MatchMeta(s) == \E i \in 1 .. Len(s) : s[i] \in {";", "&", "|", BackQuote, "$"}
\* second pattern: a dollar sign followed by an opening parenthesis
MatchSubst(s) == \E i \in 1 .. Len(s) : HasAt(s, i, <<"$", "(">>)
\* third pattern: > , any whitespace, /dev
MatchDevRedirect(s) ==
    \E i \in 1 .. Len(s) :
        s[i] = ">" /\ HasAt(s, SkipSpace(s, i + 1), <<"/", "d", "e", "v">>)
\* fourth pattern: rm, whitespace, -rf, whitespace, /
MatchRmRf(s) ==
    \E i \in 1 .. Len(s) :
        /\ HasAt(s, i, <<"r", "m">>)
        /\ i + 2 <= Len(s) /\ IsSpace(s[i + 2])
        /\ LET j == SkipSpace(s, i + 2)
           IN /\ HasAt(s, j, <<"-", "r", "f">>)
              /\ j + 3 <= Len(s) /\ IsSpace(s[j + 3])
              /\ HasAt(s, SkipSpace(s, j + 3), <<"/">>)

\* the deny-list loop of lines 201-210
Dangerous(s) == MatchMeta(s) \/ MatchSubst(s) \/ MatchDevRedirect(s) \/ MatchRmRf(s)

\* not command or not command.strip()
IsBlank(s) == \A i \in 1 .. Len(s) : IsSpace(s[i])

\* commands handed to shell_command: blank ones, harmless ones, one for each
\* deny-list pattern with near misses, and commands of MaxCmdLen and
\* MaxCmdLen + 1 characters
ShellCommands ==
    { <<>>,
      <<" ">>,
      <<" ", "\t">>,
      <<"l", "s">>,
      <<"l", "s", " ", "-", "l">>,
      <<"a", ";", "b">>,
      <<"a", "&", "b">>,
      <<"a", "|", "b">>,
      <<BackQuote, "a", BackQuote>>,
      <<"$", "a">>,
      <<"$", "(", "a", ")">>,
      <<"a", ">", "/", "d", "e", "v", "/", "x">>,
      <<"a", ">", " ", " ", "/", "d", "e", "v">>,
      <<"a", ">", "b">>,
      <<"a", ">", " ", "/", "d", "e">>,
      <<"r", "m", " ", "-", "r", "f", " ", "/">>,
      <<"r", "m", " ", " ", "-", "r", "f", "\t", "/", "x">>,
      <<"r", "m", " ", "-", "r", "f", " ", "x">>,
      <<"r", "m", "-", "r", "f", " ", "/">>,
      [i \in 1 .. MaxCmdLen |-> "a"], [i \in 1 .. MaxCmdLen + 1 |-> "a"] }

\* what subprocess.run does once called: completes ("ok"), or raises
\* TimeoutExpired, OSError and the like, or a ValueError of its own (a command
\* with an embedded null byte)
RunOutcomes == {"ok", "TimeoutExpired", "OSError", "ValueError"}

\* lines 193-210: the ValueError of the validations, NoExc when all pass
ShellValidate(cmd) ==
    IF IsBlank(cmd) THEN Exc("ValueError", "Command cannot be empty")
    ELSE IF Len(cmd) > MaxCmdLen THEN Exc("ValueError", "Command too long")
    ELSE IF Dangerous(cmd) THEN Exc("ValueError", "dangerous pattern")
    ELSE NoExc

ShellExcept_GenericFirst(e) ==
    IF e.cls = "ValueError" THEN e
    ELSE Exc("RuntimeError", "Command execution failed")

\* the except clauses of lines 250-260, in their order
ShellExcept(e) ==
    IF e.cls = "TimeoutExpired" THEN Exc("TimeoutError", "Command timed out")
    ELSE IF e.cls = "ValueError" THEN e
    ELSE Exc("RuntimeError", "Command execution failed")

ShellGuard_RunFirst(cmd) == NoExc

\* what stands between the call and logger.info/subprocess.run (line 217-222)
ShellGuard(cmd) == ShellValidate(cmd)

\* shell_command(cmd): validation, then log and run; o is what
\* subprocess.run does when it is reached
ShellCommand(t, cmd) ==
    LET T == [IdleTask EXCEPT !.op = "shell_command", !.tool = cmd]
        v == ShellGuard(cmd)
    IN /\ task[t].pc = "idle" /\ Sched(t) /\ nops < MaxOps
       /\ nops' = nops + 1
       /\ IF v # NoExc
          THEN SetTask(t, [T EXCEPT !.pc = "done", !.res = RaiseExc(ShellExcept(v))])
          ELSE \E o \in RunOutcomes :
                 SetTask(t, [T EXCEPT !.pc = "done", !.logged = TRUE, !.out = o,
                      !.res = IF o = "ok" THEN RetStr(TextStr)
                              ELSE RaiseExc(ShellExcept(Exc(o, "raised by run")))])
       /\ UNCHANGED << servers, connections, locks, conns, nloads >>

\* tools.py line 87: the longest expression accepted
MaxExprLen == 200

\* line 82: the characters an expression may contain
AllowedChars == {"0", "1", "2", "3", "4", "5", "6", "7", "8", "9",
                 "+", "-", "*", "/", "(", ")", "%", ".", " "}

\* ---- the expression tree (ast nodes) and its evaluation, lines 90-143
\* tools.py line 105: the deepest node eval_node accepts
MaxDepth == 50
\* tools.py line 122: the largest base and exponent of a power
MaxPowBase == 1000
MaxPowExp == 100

\* the magnitude limit of line 132 is ten to this power
CeilingExp == 100
\* a number as (n / d) * 10^e with d > 0: a literal 1.5 is 3 / 2, and the
\* power of ten holds the magnitudes that integers of the model cannot
Sci(n, d, e) == [n |-> n, d |-> d, e |-> e]
Rat(n, d) == Sci(n, d, 0)
Abs(i) == IF i < 0 THEN -i ELSE i
Sgn(i) == IF i < 0 THEN -1 ELSE 1
IsZero(v) == v.n = 0
\* a * 10^s > b, for a >= 0, b >= 0 and s >= 0
RECURSIVE GtScaled(_, _, _)
GtScaled(a, s, b) ==
    IF s = 0 THEN a > b
    ELSE IF a = 0 THEN FALSE
    ELSE IF a > b \div 10 THEN TRUE
    ELSE GtScaled(a * 10, s - 1, b)
\* a > b * 10^s, for a >= 0, b > 0 and s >= 0
RECURSIVE GtDown(_, _, _)
GtDown(a, s, b) ==
    IF s = 0 THEN a > b
    ELSE IF b > a \div 10 THEN FALSE
    ELSE GtDown(a, s - 1, b * 10)
\* a * 10^ea > b * 10^eb, for a >= 0 and b > 0
CmpGt(a, ea, b, eb) ==
    IF ea >= eb THEN GtScaled(a, ea - eb, b) ELSE GtDown(a, eb - ea, b)
\* abs(v) > limit, for an integer limit
AbsGt(v, limit) == CmpGt(Abs(v.n), v.e, limit * v.d, 0)

\* the node classes ast.parse builds from the characters of the allow-list
Num(n, d) == [k |-> "Constant", v |-> Rat(n, d)]
\* an integer literal written as digits followed by e zeros
NumE(n, d, e) == [k |-> "Constant", v |-> Sci(n, d, e)]
Bin(op, left, right) == [k |-> "BinOp", op |-> op, left |-> left, right |-> right]
Un(op, operand) == [k |-> "UnaryOp", op |-> op, operand |-> operand]
Other(cls) == [k |-> cls]
\* ast.parse raised instead of giving a tree
ParseError(cls) == [k |-> "raise", cls |-> cls]
\* count unary minus signs in front of a node
RECURSIVE Neg(_, _)
Neg(count, node) == IF count = 0 THEN node ELSE Un("USub", Neg(count - 1, node))

\* lines 91-100: the operators of safe_operators
SafeBinOps == {"Add", "Sub", "Mult", "Div", "Mod", "Pow"}
SafeUnaryOps == {"USub", "UAdd"}

\* what eval_node hands back: a value, or the exception it raised
Value(v) == [exc |-> NoExc, val |-> v]
Raised(e) == [exc |-> e, val |-> Rat(0, 1)]

DivisionByZeroMsg == "Division by zero"
\* the message of the overflow guard, line 133
OverflowMsg == "Result too large (overflow)"

\* integer power with a non-negative exponent
RECURSIVE IntPow(_, _)
IntPow(b, e) ==
    IF e = 0 THEN 1
    ELSE IF e = 1 THEN b
    ELSE IF e % 2 = 0 THEN IntPow(b * b, e \div 2)
    ELSE b * IntPow(b * b, e \div 2)

\* the same number with the factors of ten of n and d moved into e
RECURSIVE Norm(_)
Norm(v) ==
    IF v.n # 0 /\ v.n % 10 = 0 THEN Norm(Sci(v.n \div 10, v.d, v.e + 1))
    ELSE IF v.d % 10 = 0 THEN Norm(Sci(v.n, v.d \div 10, v.e - 1))
    ELSE v

\* the numerator of a at the smaller of the two powers of ten
MinExp(a, b) == IF a.e < b.e THEN a.e ELSE b.e
AlignN(a, b) == a.n * IntPow(10, a.e - MinExp(a, b))

\* the integer an integral value stands for
ToInt(v) == IF v.e >= 0 THEN (v.n * IntPow(10, v.e)) \div v.d
            ELSE v.n \div (v.d * IntPow(10, -v.e))

\* operator.pow for an integral exponent k (the expressions of the model
\* raise to integral powers only); zero to a negative power raises
PowOp(a, k) ==
    LET b == Norm(a)
    IN IF k >= 0 THEN Value(Sci(IntPow(b.n, k), IntPow(b.d, k), b.e * k))
       ELSE IF b.n = 0
       THEN Raised(Exc("ZeroDivisionError", "zero to a negative power"))
       ELSE Value(Sci(IntPow(Sgn(b.n) * b.d, -k), IntPow(Abs(b.n), -k), b.e * k))

\* operator.mod: a - b * floor(a / b), ZeroDivisionError for b = 0
ModOp(a, b) ==
    IF b.n = 0 THEN Raised(Exc("ZeroDivisionError", "modulo by zero"))
    ELSE LET an == AlignN(a, b)
             bn == AlignN(b, a)
             q == (an * b.d * Sgn(bn)) \div (a.d * Abs(bn))
         IN Value(Sci(an * b.d - bn * q * a.d, a.d * b.d, MinExp(a, b)))

\* line 129: safe_operators[op_type](left, right)
ApplyBinOp(op, a, b) ==
    CASE op = "Add" ->
           Value(Sci(AlignN(a, b) * b.d + AlignN(b, a) * a.d, a.d * b.d,
                     MinExp(a, b)))
      [] op = "Sub" ->
           Value(Sci(AlignN(a, b) * b.d - AlignN(b, a) * a.d, a.d * b.d,
                     MinExp(a, b)))
      [] op = "Mult" -> Value(Sci(a.n * b.n, a.d * b.d, a.e + b.e))
      [] op = "Div" ->
           IF b.n = 0 THEN Raised(Exc("ZeroDivisionError", "division by zero"))
           ELSE Value(Sci(a.n * b.d * Sgn(b.n), a.d * Abs(b.n), a.e - b.e))
      [] op = "Mod" -> ModOp(a, b)
      [] op = "Pow" -> PowOp(a, ToInt(b))

\* line 141: safe_operators[op_type](operand)
ApplyUnaryOp(op, a) == IF op = "USub" THEN Sci(-a.n, a.d, a.e) ELSE a

\* line 132: abs(result) > 1e100
TooLarge(v) == CmpGt(Abs(v.n), v.e, v.d, CeilingExp)

\* lines 125-126: the explicit test in front of the operator
DivCheck(op, right) == op = "Div" /\ IsZero(right)

\* lines 116-135 of eval_node: both operands are evaluated; the tests in the
\* order of the code, then the operator
EvalBinOp(op, left, right) ==
    IF op \notin SafeBinOps
    THEN Raised(Exc("ValueError", "Unsupported operation: " \o op))
    ELSE IF op = "Pow" /\ (AbsGt(left, MaxPowBase) \/ AbsGt(right, MaxPowExp))
    THEN Raised(Exc("ValueError",
             "Power operation values too large (base max: 1000, exponent max: 100)"))
    ELSE IF DivCheck(op, right) THEN Raised(Exc("ValueError", DivisionByZeroMsg))
    ELSE LET result == ApplyBinOp(op, left, right)
         IN IF result.exc = NoExc /\ TooLarge(result.val)
            THEN Raised(Exc("ValueError", OverflowMsg))
            ELSE result

\* lines 138-141 of eval_node: the operand is evaluated
EvalUnaryOp(op, operand) ==
    IF op \notin SafeUnaryOps
    THEN Raised(Exc("ValueError", "Unsupported operation: " \o op))
    ELSE Value(ApplyUnaryOp(op, operand))

\* eval_node(node, depth), lines 102-143: the depth test, then by node class;
\* a binary node evaluates its left operand, then its right operand
RECURSIVE EvalNode(_, _)
EvalNode(node, depth) ==
    CASE depth > MaxDepth ->
           Raised(Exc("ValueError", "Expression too complex (max depth: 50)"))
      [] depth <= MaxDepth /\ node.k = "Constant" -> Value(node.v)
      [] depth <= MaxDepth /\ node.k = "UnaryOp" ->
           LET operand == EvalNode(node.operand, depth + 1)
           IN IF operand.exc # NoExc THEN operand
              ELSE EvalUnaryOp(node.op, operand.val)
      [] depth <= MaxDepth /\ node.k = "BinOp" ->
           LET left == EvalNode(node.left, depth + 1)
           IN IF left.exc # NoExc THEN left
              ELSE LET right == EvalNode(node.right, depth + 1)
                   IN IF right.exc # NoExc THEN right
                      ELSE EvalBinOp(node.op, left.val, right.val)
      [] OTHER -> Raised(Exc("ValueError", "Unsupported node type: " \o node.k))

\* ast.parse(expression, mode='eval') of line 147 on the expressions whose
\* tree the model holds: the text and the tree (or the error) the parser gives
ParseTable ==
    <<
      [text |-> <<>>,
       tree |-> ParseError("SyntaxError")],
      [text |-> <<" ">>,
       tree |-> ParseError("IndentationError")],
      [text |-> <<"1", "+", "1">>,
       tree |-> Bin("Add", Num(1, 1), Num(1, 1))],
      [text |-> <<"1", "/", "0">>,
       tree |-> Bin("Div", Num(1, 1), Num(0, 1))],
      [text |-> <<"5", "%", "0">>,
       tree |-> Bin("Mod", Num(5, 1), Num(0, 1))],
      [text |-> <<"2", "*", "*", "3">>,
       tree |-> Bin("Pow", Num(2, 1), Num(3, 1))],
      [text |-> <<"(", "1">>,
       tree |-> ParseError("SyntaxError")],
      [text |-> <<"1", ".", "5", "*", "2">>,
       tree |-> Bin("Mult", Num(3, 2), Num(2, 1))],
      [text |-> <<"1", "/", "(", "5", "-", "5", ")">>,
       tree |-> Bin("Div", Num(1, 1), Bin("Sub", Num(5, 1), Num(5, 1)))],
      [text |-> <<"7", "%", "(", "5", "-", "5", ")">>,
       tree |-> Bin("Mod", Num(7, 1), Bin("Sub", Num(5, 1), Num(5, 1)))],
      [text |-> <<"1", "/", "0", ".", "0">>,
       tree |-> Bin("Div", Num(1, 1), Num(0, 1))],
      [text |-> <<"6", "/", "3">>,
       tree |-> Bin("Div", Num(6, 1), Num(3, 1))],
      [text |-> <<"7", "%", "3">>,
       tree |-> Bin("Mod", Num(7, 1), Num(3, 1))],
      [text |-> <<"-", "7", "%", "3">>,
       tree |-> Bin("Mod", Un("USub", Num(7, 1)), Num(3, 1))],
      [text |-> <<"1", "/", "2">>,
       tree |-> Bin("Div", Num(1, 1), Num(2, 1))],
      [text |-> <<"0", "/", "5">>,
       tree |-> Bin("Div", Num(0, 1), Num(5, 1))],
      [text |-> <<"-", "1">>,
       tree |-> Un("USub", Num(1, 1))],
      [text |-> <<"+", "1">>,
       tree |-> Un("UAdd", Num(1, 1))],
      [text |-> <<"2", "*", "*", "1", "0", "1", "/", "0">>,
       tree |-> Bin("Div", Bin("Pow", Num(2, 1), Num(101, 1)), Num(0, 1))],
      [text |-> <<"1", "0", "0", "1", "*", "*", "2", "%", "0">>,
       tree |-> Bin("Mod", Bin("Pow", Num(1001, 1), Num(2, 1)), Num(0, 1))],
      [text |-> <<"1", "/", "/", "1", "/", "0">>,
       tree |-> Bin("Div", Bin("FloorDiv", Num(1, 1), Num(1, 1)), Num(0, 1))],
      [text |-> <<"1", "/", "/", "0">>,
       tree |-> Bin("FloorDiv", Num(1, 1), Num(0, 1))],
      [text |-> <<"1", "(", "2", ")">>,
       tree |-> Other("Call")],
      [text |-> <<"1", "(", "2", ")", "/", "0">>,
       tree |-> Bin("Div", Other("Call"), Num(0, 1))],
      [text |-> <<"(", "1", "/", "0", ")", "+", "1">>,
       tree |-> Bin("Add", Bin("Div", Num(1, 1), Num(0, 1)), Num(1, 1))],
      [text |-> <<"1", "+", "1", "/", "0">>,
       tree |-> Bin("Add", Num(1, 1), Bin("Div", Num(1, 1), Num(0, 1)))],
      [text |-> <<"1", "%", "0", "/", "0">>,
       tree |-> Bin("Div", Bin("Mod", Num(1, 1), Num(0, 1)), Num(0, 1))],
      [text |-> <<"1", "/", "0", "%", "0">>,
       tree |-> Bin("Mod", Bin("Div", Num(1, 1), Num(0, 1)), Num(0, 1))],
      [text |-> <<"2", "*", "*", "-", "1">>,
       tree |-> Bin("Pow", Num(2, 1), Un("USub", Num(1, 1)))],
      [text |-> <<"0", "*", "*", "-", "1">>,
       tree |-> Bin("Pow", Num(0, 1), Un("USub", Num(1, 1)))],
      [text |-> <<"1", "/", "(", "1", "/", "2", ")">>,
       tree |-> Bin("Div", Num(1, 1), Bin("Div", Num(1, 1), Num(2, 1)))],
      [text |-> [i \in 1 .. 50 |-> "-"] \o <<"1">>,
       tree |-> Neg(50, Num(1, 1))],
      [text |-> [i \in 1 .. 51 |-> "-"] \o <<"1">>,
       tree |-> Neg(51, Num(1, 1))],
      [text |-> [i \in 1 .. 51 |-> "-"] \o <<"1", "/", "0">>,
       tree |-> Bin("Div", Neg(51, Num(1, 1)), Num(0, 1))],
      [text |-> [i \in 1 .. 49 |-> "-"] \o <<"(", "1", "/", "0", ")">>,
       tree |-> Neg(49, Bin("Div", Num(1, 1), Num(0, 1)))],
      [text |-> [i \in 1 .. 50 |-> "-"] \o <<"(", "1", "/", "0", ")">>,
       tree |-> Neg(50, Bin("Div", Num(1, 1), Num(0, 1)))],
      [text |-> <<"1">> \o [i \in 1 .. 150 |-> "0"],
       tree |-> NumE(1, 1, 150)],
      [text |-> <<"-">> \o <<"1">> \o [i \in 1 .. 150 |-> "0"],
       tree |-> Un("USub", NumE(1, 1, 150))],
      [text |-> <<"+">> \o <<"1">> \o [i \in 1 .. 150 |-> "0"],
       tree |-> Un("UAdd", NumE(1, 1, 150))],
      [text |-> <<"1">> \o [i \in 1 .. 150 |-> "0"] \o <<"*", "0">>,
       tree |-> Bin("Mult", NumE(1, 1, 150), Num(0, 1))],
      [text |-> <<"1">> \o [i \in 1 .. 150 |-> "0"] \o <<"*", "1">>,
       tree |-> Bin("Mult", NumE(1, 1, 150), Num(1, 1))],
      [text |-> <<"1", "/">> \o <<"1">> \o [i \in 1 .. 150 |-> "0"],
       tree |-> Bin("Div", Num(1, 1), NumE(1, 1, 150))],
      [text |-> <<"-">> \o <<"1">> \o [i \in 1 .. 150 |-> "0"] \o <<"*", "2">>,
       tree |-> Bin("Mult", Un("USub", NumE(1, 1, 150)), Num(2, 1))],
      [text |-> <<"1", "0", "*", "*", "1", "0", "0">>,
       tree |-> Bin("Pow", Num(10, 1), Num(100, 1))],
      [text |-> <<"1", "0", "*", "*", "1", "0", "0", "*", "1", "0">>,
       tree |-> Bin("Mult", Bin("Pow", Num(10, 1), Num(100, 1)), Num(10, 1))],
      [text |-> <<"2", "*", "1", "0", "*", "*", "1", "0", "0">>,
       tree |-> Bin("Mult", Num(2, 1), Bin("Pow", Num(10, 1), Num(100, 1)))],
      [text |-> <<"1", "0", "*", "*", "5", "0", "*", "1", "0", "*", "*", "5", "0">>,
       tree |-> Bin("Mult", Bin("Pow", Num(10, 1), Num(50, 1)), Bin("Pow", Num(10, 1), Num(50, 1)))],
      [text |-> <<"1", "0", "*", "*", "5", "0", "*", "1", "0", "*", "*", "5", "1">>,
       tree |-> Bin("Mult", Bin("Pow", Num(10, 1), Num(50, 1)), Bin("Pow", Num(10, 1), Num(51, 1)))],
      [text |-> <<"1", "0", "*", "*", "9", "9", "*", "1", "0">>,
       tree |-> Bin("Mult", Bin("Pow", Num(10, 1), Num(99, 1)), Num(10, 1))],
      [text |-> <<"1", "0", "*", "*", "9", "9", "*", "1", "1">>,
       tree |-> Bin("Mult", Bin("Pow", Num(10, 1), Num(99, 1)), Num(11, 1))],
      [text |-> <<"-", "2", "*", "1", "0", "*", "*", "1", "0", "0">>,
       tree |-> Bin("Mult", Un("USub", Num(2, 1)), Bin("Pow", Num(10, 1), Num(100, 1)))],
      [text |-> <<"-", "(", "2", "*", "1", "0", "*", "*", "1", "0", "0", ")">>,
       tree |-> Un("USub", Bin("Mult", Num(2, 1), Bin("Pow", Num(10, 1), Num(100, 1))))],
      [text |-> <<"1", "0", "*", "*", "1", "0", "0", "/", "1", "0", "*", "*", "1", "0", "0">>,
       tree |-> Bin("Div", Bin("Pow", Num(10, 1), Num(100, 1)), Bin("Pow", Num(10, 1), Num(100, 1)))],
      [text |-> <<"1", "0", "0", "0", "*", "*", "3", "3", "*", "1", "0">>,
       tree |-> Bin("Mult", Bin("Pow", Num(1000, 1), Num(33, 1)), Num(10, 1))],
      [text |-> <<"1", "0", "0", "0", "*", "*", "3", "3", "*", "2", "0">>,
       tree |-> Bin("Mult", Bin("Pow", Num(1000, 1), Num(33, 1)), Num(20, 1))],
      [text |-> <<"0", "-", "1", "0", "*", "*", "1", "0", "0", "*", "2">>,
       tree |-> Bin("Sub", Num(0, 1), Bin("Mult", Bin("Pow", Num(10, 1), Num(100, 1)), Num(2, 1)))],
      [text |-> <<"5", "*", "1", "0", "*", "*", "9", "9", "+", "5", "*", "1", "0", "*", "*", "9", "9">>,
       tree |-> Bin("Add", Bin("Mult", Num(5, 1), Bin("Pow", Num(10, 1), Num(99, 1))), Bin("Mult", Num(5, 1), Bin("Pow", Num(10, 1), Num(99, 1))))],
      [text |-> <<"5", "*", "1", "0", "*", "*", "9", "9", "+", "6", "*", "1", "0", "*", "*", "9", "9">>,
       tree |-> Bin("Add", Bin("Mult", Num(5, 1), Bin("Pow", Num(10, 1), Num(99, 1))), Bin("Mult", Num(6, 1), Bin("Pow", Num(10, 1), Num(99, 1))))]
    >>

ParsedTexts == { ParseTable[i].text : i \in DOMAIN ParseTable }
AstParse(expr) == ParseTable[CHOOSE i \in DOMAIN ParseTable : ParseTable[i].text = expr].tree

\* lines 147-148 inside the try: parse, then evaluate the body at depth 0
TryBody(expr) ==
    LET tree == AstParse(expr)
    IN IF tree.k = "raise" THEN Raised(Exc(tree.cls, "invalid syntax"))
       ELSE EvalNode(tree, 0)

\* expressions handed to calculator: the parsed ones, well-formed ones, ones
\* that divide by zero or do not parse, ones with a character outside the
\* allow-list, and expressions of MaxExprLen and MaxExprLen + 1 characters
Expressions ==
    ParsedTexts \cup
    { <<>>,
      <<" ">>,
      <<"1", "+", "1">>,
      <<"1", "/", "0">>,
      <<"5", "%", "0">>,
      <<"2", "*", "*", "3">>,
      <<"(", "1">>,
      <<"1", ".", "5", "*", "2">>,
      <<"a", "+", "1">>,
      <<"1", ";", "2">>,
      <<"1", "e", "9">>,
      <<"2", "^", "3">>,
      <<"1", " ", "+", " ", "x">>,
      [i \in 1 .. MaxExprLen |-> "1"], [i \in 1 .. MaxExprLen + 1 |-> "1"] }

\* what ast.parse, eval_node and float() of lines 147-149 may do with an
\* expression whose tree the model does not hold: give a value or raise
EvalOutcomes == {"value", "ValueError", "ZeroDivisionError", "SyntaxError",
                 "TypeError", "OverflowError", "RecursionError"}

\* lines 83-88, before the try block
CalcValidate(expr) ==
    IF \E i \in 1 .. Len(expr) : expr[i] \notin AllowedChars
    THEN Exc("ValueError", "Expression contains invalid characters")
    ELSE IF Len(expr) > MaxExprLen THEN Exc("ValueError", "Expression too long")
    ELSE NoExc

CalcExcept_ZeroDivisionOnly(e) ==
    IF e.cls = "ZeroDivisionError" THEN Exc("ValueError", "Division by zero")
    ELSE e

CalcExcept_DropMessage(e) ==
    IF e.cls = "ZeroDivisionError" THEN Exc("ValueError", DivisionByZeroMsg)
    ELSE Exc("ValueError", "Invalid expression")

\* the except clauses of lines 150-153
CalcExcept(e) ==
    IF e.cls = "ZeroDivisionError" THEN Exc("ValueError", DivisionByZeroMsg)
    ELSE Exc("ValueError", "Invalid expression: " \o e.msg)

FloatStr == << "float" >>

\* the try body of lines 146-149: computed for the parsed expressions, any
\* outcome for the others
TryOutcomes(expr) ==
    IF expr \in ParsedTexts THEN { TryBody(expr) }
    ELSE { IF o = "value" THEN Value(Rat(1, 1)) ELSE Raised(Exc(o, "raised")) :
           o \in EvalOutcomes }

\* calculator(expr)
Calculator(t, expr) ==
    LET T == [IdleTask EXCEPT !.op = "calculator", !.tool = expr]
        v == CalcValidate(expr)
    IN /\ task[t].pc = "idle" /\ Sched(t) /\ nops < MaxOps
       /\ nops' = nops + 1
       /\ IF v # NoExc
          THEN SetTask(t, [T EXCEPT !.pc = "done", !.res = RaiseExc(v)])
          ELSE \E r \in TryOutcomes(expr) :
                 SetTask(t, [T EXCEPT !.pc = "done",
                      !.out = IF r.exc = NoExc THEN "value" ELSE r.exc.cls,
                      !.res = IF r.exc = NoExc THEN RetStr(FloatStr)
                              ELSE RaiseExc(CalcExcept(r.exc))])
       /\ UNCHANGED << servers, connections, locks, conns, nloads >>

\* a Manager without servers; the tool functions are called one after another
InitTools ==
    /\ Fresh
    /\ servers = EmptyMap

NextTools ==
    \E t \in Tasks :
        \/ \E cmd \in ShellCommands : ShellCommand(t, cmd)
        \/ \E expr \in Expressions : Calculator(t, expr)
        \/ Finish(t)

SpecTools == InitTools /\ [][NextTools]_vars

\* ======================================================================
\* Properties
\* ======================================================================
\* the Connection objects constructed for server n; each starts one transport
ConnsOf(n) == { i \in 1 .. Len(conns) : conns[i].config.name = n }
\* connected, or still inside connect()
Live(i) == conns[i].connected \/ conns[i].outcome = "pending"
\* get_status shows n connected and its session handle is there
Usable(n) ==
    /\ n \in DOMAIN connections
    /\ conns[connections[n]].connected
    /\ conns[connections[n]].session
Discovered(n) == { conns[connections[n]].tools[k] : k \in DOMAIN conns[connections[n]].tools }

\* C1 as stated: a caller of connect_server(name) that found the per-server
\* lock held by a concurrent caller returns success without constructing a
\* Connection, and exactly one Connection (subprocess/session) was created
\* for the server.
C1_WaiterReturnsSuccess ==
    \A t \in Tasks :
        LET T == task[t]
        IN (T.pc = "done" /\ T.op = "connect_server" /\ T.waited
            /\ T.name \in DOMAIN servers)
           => /\ T.res.k = "ret" /\ T.res.b
              /\ T.made = 0
              /\ Cardinality(ConnsOf(T.name)) = 1

\* C1 amended: per server at most one Connection is connected or being
\* connected at any time; a caller of connect_server(name) that constructs
\* no Connection returns success with a connected Connection registered; a
\* caller that constructs one does so only when no other Connection of the
\* server is connected or being connected, and when it returns success its
\* Connection is the registered, connected one.
C1_OneLiveAttempt ==
    /\ \A n \in Names : Cardinality({ i \in ConnsOf(n) : Live(i) }) <= 1
    /\ \A t \in Tasks :
         LET T == task[t]
             n == T.name
         IN (T.pc = "done" /\ T.op = "connect_server" /\ n \in DOMAIN servers)
            => /\ T.made = 0 =>
                    /\ T.res.k = "ret" /\ T.res.b
                    /\ n \in DOMAIN connections /\ conns[connections[n]].connected
               /\ T.made # 0 =>
                    /\ \A i \in ConnsOf(n) \ {T.made} : ~Live(i)
                    /\ (T.res.k = "ret" /\ T.res.b) =>
                         /\ n \in DOMAIN connections /\ connections[n] = T.made
                         /\ conns[T.made].connected

\* a caller that queued for the lock returned success without spawning
C1_Witness ==
    \E t \in Tasks :
        /\ task[t].pc = "done" /\ task[t].op = "connect_server"
        /\ task[t].waited /\ task[t].made = 0 /\ task[t].res.b
        /\ Cardinality(ConnsOf(task[t].name)) = 1

\* C2: when disconnect_server(name) returns for a server that was connected
\* with at least one discovered tool, get_all_tools() has no entry owned by
\* name and call_tool on each of its former tool names fails "not connected".
C2_DisconnectRemovesTools ==
    \A t \in Tasks :
        LET T == task[t]
        IN (T.pc = "done" /\ T.op = "disconnect_server" /\ T.preTools # {})
           => /\ \A k \in DOMAIN GetAllTools(NoName) : GetAllTools(NoName)[k] # {T.name}
              /\ \A k \in T.preTools : CallToolPrefix(k).exc.msg = "not connected"

\* C3: for every connected server S with its session and every tool T
\* discovered on S, the key of T is mcp_{S}_{T} and Manager.call_tool on that
\* name reaches the external call on the Connection registered under S with
\* the original name T.
C3_NamespaceRoundTrip ==
    [][ \A t \in Tasks, S \in Names, T \in ToolNames :
          ( /\ StartCallTool(t, NamespaceToolName(S, T))
            /\ Usable(S)
            /\ T \in Discovered(S) )
          => /\ NamespaceToolName(S, T) \in DOMAIN conns[connections[S]].tools
             /\ task'[t].pc = "ct_call"
             /\ task'[t].sent = << connections[S], T >> ]_vars

\* C4: the tool maps of two different connected servers share no namespaced
\* name, so every key of get_all_tools() belongs to exactly one server.
C4_NamespacedNamesUnique ==
    /\ \A S1, S2 \in DOMAIN connections :
         (S1 # S2 /\ conns[connections[S1]].connected /\ conns[connections[S2]].connected)
         => DOMAIN conns[connections[S1]].tools \cap DOMAIN conns[connections[S2]].tools = {}
    /\ \A k \in DOMAIN GetAllTools(NoName) : Cardinality(GetAllTools(NoName)[k]) = 1

\* C5: execute_tool returns a string for every tool name, arguments string
\* and Manager state, never an exception, and the string begins with
\* "Error: " whenever no tool ran to a successful end.
C5_ExecuteToolTotal ==
    \A t \in Tasks :
        LET T == task[t]
        IN (T.pc = "done" /\ T.op = "execute_tool")
           => /\ T.res.k = "ret"
              /\ T.res.s # <<>>
              /\ T.out # "ok" => Head(T.res.s) = "Error: "

\* a Manager exception (server not connected) came back as an error string
C5_Witness ==
    \E t \in Tasks :
        /\ task[t].pc = "done" /\ task[t].op = "execute_tool"
        /\ task[t].via = "registry" /\ task[t].json
        /\ StartsWith(task[t].tool, McpPrefix)
        /\ task[t].res = RetStr(ErrStr("not connected"))

\* C6: connect() hands connect_server a boolean, never an exception.
C6_ConnectNeverRaises ==
    \A t \in Tasks : task[t].pc = "cs_finish" => task[t].exc = NoExc

\* C7: a failed connect_server(name) has returned with no Connection
\* registered under name and the lock free; and every configured server is
\* Connected with its session, or a connect_server call would make a fresh
\* attempt, or a disconnect_server call can deregister its Connection.
C7_RetryAlwaysPossible ==
    /\ \A t \in Tasks :
         LET T == task[t]
         IN (T.pc = "done" /\ T.op = "connect_server" /\ T.name \in DOMAIN servers
             /\ (T.res.k = "exc" \/ ~T.res.b))
            => /\ T.name \notin DOMAIN connections
               /\ locks[T.name].holder = 0
    /\ \A n \in DOMAIN servers :
         \/ Usable(n)
         \/ n \notin DOMAIN connections
         \/ ~conns[connections[n]].connected
         \/ ProcessAttrDefined
         \/ ~conns[connections[n]].cctx

\* C8: when connect_autoconnect_servers() ends, connect_server has been
\* called for every server with autoconnect=true of the map it iterated.
C8_AllAutoconnectAttempted ==
    \A t \in Tasks :
        LET T == task[t]
        IN (T.pc = "done" /\ T.op = "autoconnect")
           => { n \in DOMAIN T.iter : T.iter[n].autoconnect } \subseteq T.att

\* C9: connect_autoconnect_servers() calls connect_server for no server whose
\* autoconnect flag is false in the configuration it iterates, and neither
\* constructs nor registers a Connection for it.
C9_NoAttemptWithoutAutoconnect ==
    \A t \in Tasks :
        LET T == task[t]
        IN T.op = "autoconnect"
           => \A n \in DOMAIN T.iter :
                ~T.iter[n].autoconnect
                => /\ n \notin T.att
                   /\ T.name # n
                   /\ T.cid # 0 => conns[T.cid].config.name # n

\* the call ended after an attempt on one server and none on a server that
\* is configured without autoconnect
C9_Witness ==
    \E t \in Tasks :
        /\ task[t].pc = "done" /\ task[t].op = "autoconnect"
        /\ task[t].att # {}
        /\ \E n \in DOMAIN task[t].iter : ~task[t].iter[n].autoconnect

\* the servers reload_config of task record T must leave alone: autoconnect,
\* in the old and the new map, equal in command, args, env and autoconnect
UnchangedFor(T) ==
    { n \in DOMAIN T.old \cap DOMAIN T.iter :
        /\ T.iter[n].autoconnect
        /\ T.old[n].command = T.iter[n].command
        /\ T.old[n].args = T.iter[n].args
        /\ T.old[n].env = T.iter[n].env
        /\ T.old[n].autoconnect = T.iter[n].autoconnect }

\* C10: no step of reload_config calls disconnect_server or connect_server
\* for an unchanged autoconnect server, and each such step leaves the
\* server's registration and its Connection object as they were.
C10_ReloadLeavesUnchanged ==
    [][ \A t \in Tasks :
          (task'[t] # task[t] /\ task'[t].op = "reload_config")
          => \A n \in UnchangedFor(task'[t]) :
               /\ n \notin task'[t].att \cup task'[t].dis
               /\ (n \in DOMAIN connections) = (n \in DOMAIN connections')
               /\ n \in DOMAIN connections =>
                    /\ connections'[n] = connections[n]
                    /\ conns'[connections[n]] = conns[connections[n]] ]_vars

\* reload_config returned over a connected server of which only the
\* description changed
C10_Witness ==
    \E t \in Tasks :
        /\ task[t].pc = "done" /\ task[t].op = "reload_config"
        /\ \E n \in UnchangedFor(task[t]) :
             /\ task[t].old[n].description # task[t].iter[n].description
             /\ n \in DOMAIN connections
             /\ conns[connections[n]].connected

\* C11: when reload_config() has returned, every autoconnect server whose args
\* changed and for which it called disconnect_server (a Connection was
\* registered) has been passed to connect_server, its registered Connection
\* was created from the new ServerConfig, and no Connection of the old config
\* is still connected.
C11_ReloadReconnectsChanged ==
    \A t \in Tasks :
        LET T == task[t]
        IN (T.pc = "done" /\ T.op = "reload_config" /\ T.res.k = "ret")
           => \A n \in T.dis \cap DOMAIN T.old \cap DOMAIN T.iter :
                (T.iter[n].autoconnect /\ T.old[n].args # T.iter[n].args)
                => /\ n \in T.att
                   /\ n \in DOMAIN connections =>
                        conns[connections[n]].config = T.iter[n]
                   /\ \A i \in ConnsOf(n) :
                        conns[i].connected => conns[i].config = T.iter[n]

\* C12: when reload_config() has returned and no other operation is in
\* flight, no server that had a registered Connection when the reload looked
\* (it called disconnect_server for it) and that is outside the configured
\* server set is still in the connections map, and get_all_tools() and
\* get_tool_schemas() expose no tool of such a server.
C12_ReloadDropsRemoved ==
    \A t \in Tasks :
        LET T == task[t]
            removed == T.dis \ DOMAIN servers
        IN (/\ T.pc = "done" /\ T.op = "reload_config" /\ T.res.k = "ret"
            /\ \A u \in Tasks \ {t} : task[u].pc = "idle")
           => /\ DOMAIN connections \cap removed = {}
              /\ \A k \in DOMAIN GetAllTools(NoName) :
                   GetAllTools(NoName)[k] \cap removed = {}
              /\ \A p \in GetToolSchemas : p[1] \notin removed

\* the sum of tool_count over the entries of get_status() that say connected
RECURSIVE SumToolCount(_)
SumToolCount(S) ==
    IF S = {} THEN 0
    ELSE LET n == CHOOSE x \in S : TRUE
         IN StatusToolCount(n) + SumToolCount(S \ {n})

\* C13: in every reachable state the number of schemas of
\* ToolRegistry.get_tool_schemas() is the number of local tools plus the sum
\* of tool_count over the servers get_status() reports connected.
C13_SchemaCountMatchesStatus ==
    RegistryToolSchemaCount
      = Cardinality(LocalTools)
        + SumToolCount({ n \in DOMAIN servers : StatusConnected(n) })

C15_BadConfigGivesEmptySet ==
    [][ \A t \in Tasks, k \in BadKinds :
          ( /\ task[t].pc = "idle"
            /\ task'[t].op \in {"load_config", "reload_config"}
            /\ servers' = LoadConfig(servers, [kind |-> k, servers |-> EmptyMap]) )
          => /\ task'[t].res.k # "exc"
             /\ DOMAIN servers' = {} ]_vars

\* C16: execute_tool routes by name. A local tool name runs locally and the
\* Manager is not called; a non-local name with the mcp_ prefix, when a
\* Manager is set, has its arguments parsed and is handed to
\* Manager.call_tool, whose result string is returned as it is; every other
\* name, and an mcp_ name without a Manager, gives "Error: Unknown tool"
\* and nothing runs.
C16_ExecuteToolRouting ==
    \A t \in Tasks :
        LET T == task[t]
            hasMgr == T.via = "registry"
        IN (T.pc = "done" /\ T.op = "execute_tool")
           => /\ T.tool \in LocalTools =>
                   /\ T.route = "local" /\ T.sent = <<>>
                   /\ T.json => T.out \in LocalOutcomes
                   /\ T.res.k = "ret"
              /\ (T.tool \notin LocalTools /\ StartsWith(T.tool, McpPrefix) /\ hasMgr) =>
                   /\ T.json => T.route = "manager"
                   /\ ~T.json => (T.route = "parse" /\ T.sent = <<>>)
                   /\ T.sent # <<>> =>
                        /\ T.out = "ok" => T.res = RetStr(TextStr)
                        /\ T.out = "error" => T.res = RetStr(ErrStr("call failed"))
              /\ (T.tool \notin LocalTools /\ ~(StartsWith(T.tool, McpPrefix) /\ hasMgr)) =>
                   /\ T.route = "unknown"
                   /\ T.res = RetStr(ErrStr("Unknown tool"))
                   /\ T.sent = <<>> /\ T.out = "none"

\* an mcp_ name went through the Manager to the external call and its text
\* came back
C16_Witness ==
    \E t \in Tasks :
        /\ task[t].pc = "done" /\ task[t].op = "execute_tool"
        /\ task[t].route = "manager" /\ task[t].sent # <<>>
        /\ task[t].res = RetStr(TextStr)

\* the namespaced names of the tools discovered on server n, when its
\* registered Connection is connected
NamesOfServer(n) ==
    IF n \in DOMAIN connections /\ conns[connections[n]].connected
    THEN { NamespaceToolName(n, tl) : tl \in Discovered(n) }
    ELSE {}

\* C17: list_tools() without a filter is the local tool names together with
\* the namespaced names of all tools of the connected servers; with a filter
\* it holds no local tool name and exactly the namespaced names of the tools
\* of that one connected server.
C17_ListToolsFilter ==
    /\ ListTools(NoName) = LocalTools \cup UNION { NamesOfServer(n) : n \in Names }
    /\ \A f \in Names :
         /\ ListTools(f) \cap LocalTools = {}
         /\ ListTools(f) = NamesOfServer(f)

\* two servers are connected with different tools: the filter tells them apart
C17_Witness ==
    \E f, g \in Names :
        /\ ListTools(f) # {} /\ ListTools(g) # {}
        /\ ListTools(f) # ListTools(g)

\* a command the validations of shell_command must refuse
MustReject(cmd) ==
    \/ IsBlank(cmd)
    \/ Len(cmd) > MaxCmdLen
    \/ MatchMeta(cmd) \/ MatchSubst(cmd) \/ MatchDevRedirect(cmd) \/ MatchRmRf(cmd)

\* C18: shell_command fails with a validation error (ValueError) for every
\* command that is blank, longer than 1000 characters or matches a deny-list
\* pattern, without logging an execution and without starting a subprocess;
\* a subprocess is started only for a command that passed every validation.
C18_RejectBeforeExecute ==
    \A t \in Tasks :
        LET T == task[t]
        IN (T.pc = "done" /\ T.op = "shell_command")
           => /\ MustReject(T.tool) =>
                   /\ T.res.k = "exc" /\ T.res.e.cls = "ValueError"
                   /\ T.out = "none" /\ ~T.logged
              /\ (T.out # "none" \/ T.logged) => ~MustReject(T.tool)

\* rm -rf / was refused and nothing ran
C18_Witness ==
    \E t \in Tasks :
        /\ task[t].pc = "done" /\ task[t].op = "shell_command"
        /\ task[t].tool = <<"r", "m", " ", "-", "r", "f", " ", "/">>
        /\ task[t].res.e.cls = "ValueError"
        /\ task[t].out = "none" /\ ~task[t].logged

\* the messages of the three validation errors of shell_command
ValidationMessages == {"Command cannot be empty", "Command too long", "dangerous pattern"}

\* C19: a shell command that exceeds its timeout fails with TimeoutError
\* ("timed out"), not with a ValueError or the generic RuntimeError
\* "Command execution failed"; and a validation error reaches the caller as
\* the ValueError that was raised, not wrapped as an execution failure.
C19_TimeoutIsDistinct ==
    \A t \in Tasks :
        LET T == task[t]
        IN (T.pc = "done" /\ T.op = "shell_command")
           => /\ T.out = "TimeoutExpired" =>
                   T.res = RaiseExc(Exc("TimeoutError", "Command timed out"))
              /\ T.res.e.cls = "TimeoutError" => T.out = "TimeoutExpired"
              /\ MustReject(T.tool) =>
                   /\ T.res.k = "exc" /\ T.res.e.cls = "ValueError"
                   /\ T.res.e.msg \in ValidationMessages

\* a command that passed validation ran into its timeout
C19_Witness ==
    \E t \in Tasks :
        /\ task[t].pc = "done" /\ task[t].op = "shell_command"
        /\ task[t].logged /\ task[t].out = "TimeoutExpired"
        /\ task[t].res.e.cls = "TimeoutError"

\* C20: calculator, for every expression string, returns a floating-point
\* result or raises ValueError and nothing else; an expression with a
\* character outside the allow-list is refused as "invalid characters"
\* before anything is parsed or evaluated.
C20_CalculatorValueErrorOnly ==
    \A t \in Tasks :
        LET T == task[t]
        IN (T.pc = "done" /\ T.op = "calculator")
           => /\ T.res.k \in {"ret", "exc"}
              /\ T.res.k = "ret" => T.res.s = FloatStr
              /\ T.res.k = "exc" => T.res.e.cls = "ValueError"
              /\ (\E i \in 1 .. Len(T.tool) : T.tool[i] \notin AllowedChars) =>
                   /\ T.res = RaiseExc(Exc("ValueError", "Expression contains invalid characters"))
                   /\ T.out = "none"

\* a ZeroDivisionError of the evaluation reached the caller as ValueError
C20_Witness ==
    \E t \in Tasks :
        /\ task[t].pc = "done" /\ task[t].op = "calculator"
        /\ task[t].out = "ZeroDivisionError"
        /\ task[t].res = RaiseExc(Exc("ValueError", "Division by zero"))

\* the tree holds a / or % whose right operand, evaluated on its own, is zero
RECURSIVE HasZeroDivisor(_)
HasZeroDivisor(node) ==
    CASE node.k = "UnaryOp" -> HasZeroDivisor(node.operand)
      [] node.k = "BinOp" ->
           \/ /\ node.op \in {"Div", "Mod"}
              /\ LET right == EvalNode(node.right, 0)
                 IN right.exc = NoExc /\ IsZero(right.val)
           \/ HasZeroDivisor(node.left)
           \/ HasZeroDivisor(node.right)
      [] OTHER -> FALSE

\* the evaluation of the node at this depth arrives at a / or % with a zero
\* right operand: everything evaluated before it gave a value
RECURSIVE ZeroDivisionReached(_, _)
ZeroDivisionReached(node, depth) ==
    CASE depth > MaxDepth -> FALSE
      [] depth <= MaxDepth /\ node.k = "UnaryOp" ->
           ZeroDivisionReached(node.operand, depth + 1)
      [] depth <= MaxDepth /\ node.k = "BinOp" ->
           \/ ZeroDivisionReached(node.left, depth + 1)
           \/ /\ EvalNode(node.left, depth + 1).exc = NoExc
              /\ \/ ZeroDivisionReached(node.right, depth + 1)
                 \/ /\ node.op \in {"Div", "Mod"}
                    /\ LET right == EvalNode(node.right, depth + 1)
                       IN right.exc = NoExc /\ IsZero(right.val)
      [] OTHER -> FALSE

\* a ValueError whose message names division by zero, bare or behind the
\* prefix of the catch-all clause
NamesDivisionByZero(e) ==
    /\ e.cls = "ValueError"
    /\ e.msg \in {DivisionByZeroMsg, "Invalid expression: " \o DivisionByZeroMsg}

\* calculator was called on an expression that passed the checks and parsed
Evaluated(T) ==
    /\ T.pc = "done" /\ T.op = "calculator"
    /\ CalcValidate(T.tool) = NoExc
    /\ T.tool \in ParsedTexts
    /\ AstParse(T.tool).k # "raise"

C22_FailedConnectCleanedUp ==
    \A i \in 1 .. Len(conns) :
        conns[i].outcome \in {"fail", "raise"}
        => /\ ~conns[i].session /\ ~conns[i].sctx
           /\ ~conns[i].cctx /\ ~conns[i].streams
           /\ ~conns[i].connected

\* C23: in every run of _cleanup the session context is closed before the
\* close of the transport context is awaited, and when a transport context
\* exists the step that ends the session close, however it ended, leads to the
\* transport close.
C23_TeardownOrder ==
    [][ \A t \in Tasks :
          /\ (task'[t].pc = "cl_client" => ~conns'[task'[t].cid].sctx)
          /\ (/\ task[t].pc = "cl_session" /\ task'[t].pc # "cl_session"
              /\ conns[task[t].cid].cctx)
             => task'[t].pc = "cl_client" ]_vars

\* what the _cleanup that task record T is at the end of raises (NoExc: it
\* returns)
CleanupRaises(T) == IF T.exc # NoExc THEN T.exc ELSE T.excs

\* C24: when the session close raised E1 and the transport close then raised
\* E2, _cleanup ends by raising E1.
C24_FirstErrorSurfaced ==
    \A t \in Tasks :
        LET T == task[t]
        IN (T.pc = "cl_end" /\ T.excs = SessionCloseError /\ T.tclose = "error")
           => CleanupRaises(T) = SessionCloseError

\* C25: a _cleanup whose transport close was cancelled or timed out ends with
\* the transport context and both streams released.
C25_CancelledCloseReleasesHandles ==
    \A t \in Tasks :
        LET T == task[t]
        IN (T.pc = "cl_end" /\ T.tclose \in {"cancelled", "timeout"})
           => /\ ~conns[T.cid].cctx /\ ~conns[T.cid].streams
              /\ CleanupRaises(T) \in {NoExc, SessionCloseError}

\* C26: every call of connect_server and disconnect_server eventually
\* returns, and a per-server lock that is held is eventually released.
C26_CallsReturnAndLocksFree ==
    /\ \A t \in Tasks :
         (task[t].op \in {"connect_server", "disconnect_server"})
            ~> (task[t].pc = "done")
    /\ \A n \in Names :
         (n \in DOMAIN locks /\ locks[n].holder # 0)
            ~> (n \in DOMAIN locks /\ locks[n].holder = 0)

\* C27: the tool map of a Connection is non-empty only while it is connected;
\* it is empty when the Connection has just been constructed, after a failed
\* connect() and when disconnect() has returned.
C27_ToolsOnlyWhileConnected ==
    /\ \A i \in 1 .. Len(conns) :
         /\ conns[i].tools # EmptyMap => conns[i].connected
         /\ conns[i].outcome \in {"fail", "raise"} => conns[i].tools = EmptyMap
    /\ \A t \in Tasks :
         /\ task[t].pc = "co_transport" => conns[task[t].cid].tools = EmptyMap
         /\ task[t].pc = "ds_finish" => conns[task[t].cid].tools = EmptyMap

\* C29: when list_tools fails, or the processing of the listed descriptors
\* fails part-way, connect() still returns True with connected set, and the
\* tool map holds no entry.
C29_DiscoveryFailureLeavesNoTools ==
    \A t \in Tasks :
        LET T == task[t]
        IN (T.pc = "cs_finish" /\ T.out \in {"list_failed", "loop_failed"})
           => /\ T.val /\ T.exc = NoExc
              /\ conns[T.cid].connected
              /\ conns[T.cid].tools = EmptyMap

\* C28: for each server name at most one Connection object, registered or
\* not, holds a transport whose child process is running.
C28_OneLiveConnectionPerServer ==
    \A n \in Names :
        Cardinality({ i \in ConnsOf(n) : conns[i].proc }) <= 1

\* servers that one of the three readers shows as connected
ShownConnected ==
    { n \in Names : StatusConnected(n) }
    \cup UNION { GetAllTools(NoName)[k] : k \in DOMAIN GetAllTools(NoName) }
    \cup { p[1] : p \in GetToolSchemas }

\* a task is inside _cleanup for Connection i
TornDown(i) ==
    \E t \in Tasks : task[t].cid = i /\ task[t].pc \in {"cl_session", "cl_client", "cl_end"}

\* C30: whenever every task is suspended in an await, so that a reader can
\* run, each server the readers show as connected has its session handle and
\* is not being torn down.
C30_NoHalfConnectedState ==
    running = 0 =>
        \A n \in ShownConnected :
            /\ conns[connections[n]].session
            /\ conns[connections[n]].sctx /\ conns[connections[n]].cctx
            /\ ~TornDown(connections[n])

\* task t is inside "async with self._connection_locks[name]" of
\* connect_server (lines 361-374), the cleanup of a failed connect included
InConnectSection(t) ==
    \/ task[t].pc \in {"cs_locked", "co_transport", "co_session", "co_init",
                       "co_list", "cs_finish"}
    \/ task[t].pc \in {"cl_session", "cl_client", "cl_end"} /\ task[t].cl # "disc"

\* C31: two callers for the same server are never inside the connect section
\* together, the holder of a server's lock is the task inside the section for
\* that server, and a caller waits for a lock only while a task is inside the
\* section for the same server or the released lock is about to be handed to
\* it: a connect for another server never makes it wait.
C31_LocksIndependent ==
    /\ \A t, u \in Tasks :
         (t # u /\ InConnectSection(t) /\ InConnectSection(u))
            => task[t].name # task[u].name
    /\ \A n \in DOMAIN locks :
         locks[n].holder # 0
            => InConnectSection(locks[n].holder) /\ task[locks[n].holder].name = n
    /\ \A t \in Tasks :
         task[t].pc = "cs_wait"
            => \/ \E u \in Tasks \ {t} :
                    InConnectSection(u) /\ task[u].name = task[t].name
               \/ locks[task[t].name].holder = 0

\* connects for two different servers are suspended inside connect() at once
C31_Witness ==
    \E t, u \in Tasks :
        /\ task[t].name # task[u].name
        /\ task[t].pc \in {"co_transport", "co_session", "co_init", "co_list"}
        /\ task[u].pc \in {"co_transport", "co_session", "co_init", "co_list"}
        /\ locks[task[t].name].holder = t /\ locks[task[u].name].holder = u

\* C32: a disconnect_server(name) that finds no Connection registered under
\* name returns True and leaves the connections map and every Connection as
\* they are; one that finds a Connection calls disconnect() on it, and on the
\* return of disconnect() the registration is gone if disconnect() returned
\* True, and the map is unchanged and False is returned if it returned False.
C32_DisconnectServerRegistration ==
    [][ \A t \in Tasks :
          LET T == task[t]
              U == task'[t]
              n == T.name
          IN /\ (T.pc = "ds_enter" /\ U.pc # "ds_enter" /\ n \notin DOMAIN connections)
                => /\ connections' = connections /\ conns' = conns
                   /\ T.ret = "top" => U.pc = "done" /\ U.res.k = "ret" /\ U.res.b
             /\ (T.pc = "ds_enter" /\ U.pc # "ds_enter" /\ n \in DOMAIN connections)
                => /\ U.cid = connections[n]
                   /\ U.pc \in {"cl_session", "cl_client", "cl_end", "ds_finish"}
                   /\ connections' = connections
             /\ (T.pc = "ds_finish" /\ U.pc # "ds_finish")
                => IF T.val
                   THEN n \notin DOMAIN connections'
                   ELSE /\ connections' = connections
                        /\ T.ret = "top" => U.pc = "done" /\ U.res.k = "ret" /\ ~U.res.b ]_vars

\* a disconnect() that returned False left the registration in place
C32_Witness ==
    \E t \in Tasks :
        /\ task[t].pc = "done" /\ task[t].op = "disconnect_server"
        /\ task[t].res.k = "ret" /\ ~task[t].res.b
        /\ task[t].name \in DOMAIN connections

\* the evaluation gave a value above the magnitude limit
YieldsTooLarge(r) == r.exc = NoExc /\ TooLarge(r.val)
\* the evaluation of the node at this depth yields, in a literal constant, a
\* unary operation or a binary operation, a value above the magnitude limit
RECURSIVE CeilingExceeded(_, _)
CeilingExceeded(node, depth) ==
    CASE depth > MaxDepth -> FALSE
      [] depth <= MaxDepth /\ node.k = "Constant" -> TooLarge(node.v)
      [] depth <= MaxDepth /\ node.k = "UnaryOp" ->
           IF CeilingExceeded(node.operand, depth + 1) THEN TRUE
           ELSE YieldsTooLarge(EvalNode(node, depth))
      [] depth <= MaxDepth /\ node.k = "BinOp" ->
           IF CeilingExceeded(node.left, depth + 1) THEN TRUE
           ELSE IF EvalNode(node.left, depth + 1).exc # NoExc THEN FALSE
           ELSE IF CeilingExceeded(node.right, depth + 1) THEN TRUE
           ELSE EvalNode(node, depth).exc = Exc("ValueError", OverflowMsg)
      [] OTHER -> FALSE

\* C33 as stated: the magnitude limit holds for every intermediate result.
\* No evaluation returns a value when a literal constant, a unary operation
\* or a binary operation of the expression yielded a value whose absolute
\* value exceeds 1e100; every such expression fails with the overflow
\* validation error.
C33_CeilingOnEveryResult ==
    \A t \in Tasks :
        LET T == task[t]
        IN (Evaluated(T) /\ CeilingExceeded(AstParse(T.tool), 0))
           => /\ T.res.k = "exc"
              /\ T.res.e = Exc("ValueError", "Invalid expression: " \o OverflowMsg)

\* C34: registered implies connected. Whenever other tasks can run (no task
\* is between two of its await points), every Connection in the connections
\* map has connected = true, so get_status reports a configured server as
\* connected exactly when a Connection is registered under its name.
C34_RegisteredImpliesConnected ==
    running = 0 =>
        /\ \A n \in DOMAIN connections : conns[connections[n]].connected
        /\ \A n \in DOMAIN servers : StatusConnected(n) <=> n \in DOMAIN connections

\* a disconnect of a registered Connection is suspended at the close of its
\* transport, the session handle already released, and other tasks can run
C34_Witness ==
    /\ running = 0
    /\ \E t \in Tasks :
         /\ task[t].op = "disconnect_server" /\ task[t].pc = "cl_client"
         /\ task[t].name \in DOMAIN connections
         /\ connections[task[t].name] = task[t].cid
         /\ ~conns[task[t].cid].session
         /\ task[t].name \in DOMAIN servers

\* no operation other than the one of task t is in flight
OnlyTask(t) == \A u \in Tasks \ {t} : task[u].pc = "idle"

\* the Connection registered under n was created from a ServerConfig equal to
\* the one configured under n now
FromCurrentConfig(n) ==
    /\ n \in DOMAIN servers
    /\ ConfigEq(conns[connections[n]].config, servers[n])

\* C35 as stated: no stale connection after reload. When reload_config has
\* returned and no other operation is in flight, every registered Connection
\* was created from a ServerConfig equal to the one currently configured
\* under its name (servers connected manually and servers whose autoconnect
\* flag changed included).
C35_NoStaleConnectionAfterReload ==
    \A t \in Tasks :
        (/\ task[t].pc = "done" /\ task[t].op = "reload_config"
         /\ task[t].res.k = "ret" /\ OnlyTask(t))
        => \A n \in DOMAIN connections : FromCurrentConfig(n)

\* the tasks that are inside _cleanup() of Connection i on behalf of disconnect()
Disconnecting(i) ==
    { t \in Tasks : /\ task[t].cid = i /\ task[t].cl = "disc"
                    /\ task[t].pc \in {"cl_session", "cl_client", "cl_end"} }

\* C36 as stated: concurrent disconnects are safe. When tasks that call
\* disconnect_server(name) or cleanup() for the same connected server
\* interleave at their await points, the cleanup protocol is not run a second
\* time on a Connection while another task is running it, no call raises
\* (other than by the cancellation of its own task), and every finished
\* disconnect_server returns a boolean.
C36_ConcurrentDisconnectsSafe ==
    /\ \A i \in 1 .. Len(conns) : Cardinality(Disconnecting(i)) <= 1
    /\ \A t \in Tasks :
         (task[t].pc = "done" /\ task[t].op \in {"disconnect_server", "cleanup"})
         => \/ task[t].res.k = "ret"
            \/ task[t].res.e = CancelledError

\* no operation is in flight
Quiescent == \A t \in Tasks : task[t].pc = "idle"

\* C37 as stated: connected means usable. In every state with no operation
\* in flight, a Connection whose connected flag is true has its session
\* handle, so call_tool on it is not rejected as not connected; a disconnect
\* that returned failure leaves no registered Connection with connected =
\* true and the session released.
C37_ConnectedMeansUsable ==
    Quiescent => \A i \in 1 .. Len(conns) : conns[i].connected => conns[i].session

\* C38 as stated: reload racing with connect. Among calls of connect_server
\* and reload_config, when a reload_config has run and a connect_server that
\* constructed its Connection completes last, with nothing else in flight,
\* no Connection is registered for a name absent from the configuration and
\* none that was created from a ServerConfig differing from the configured
\* one. (A reload that ran before the connect_server started gives it the new
\* configuration; the other reloads ran while it was suspended in connect.)
C38_ReloadRacingConnect ==
    \A u \in Tasks :
        (/\ task[u].pc = "done" /\ task[u].op = "connect_server"
         /\ task[u].made # 0 /\ nloads = 1 /\ OnlyTask(u))
        => \A n \in DOMAIN connections : FromCurrentConfig(n)

====
